---- MODULE Spec2Model ----
(***************************************************************************)
(* Model of the research assistant workflows.                             *)
(*                                                                         *)
(* Two compiled graphs are modelled: the interview sub-workflow            *)
(* (graphs/interview_graph.py) and the top-level research workflow         *)
(* (graphs/research_graph.py).  Node executors and routers are translated  *)
(* from nodes/*.py; the LLM and the search tools are collaborators whose   *)
(* outputs are drawn from small repertoires.  The graphs are executed by   *)
(* the LangGraph runtime: one superstep per set of pending nodes, writes   *)
(* applied through the channel reducers when the superstep ends, a         *)
(* checkpoint saved after every superstep when a checkpointer is set.      *)
(*                                                                         *)
(* Not modelled: message ids (add_messages only appends here), the         *)
(* runtime's recursion limit, and the pending writes a checkpointer keeps  *)
(* for the tasks of a failed superstep that had succeeded (a resumed       *)
(* superstep is re-run as a whole).  One invoke is in progress at a time.  *)
(***************************************************************************)
EXTENDS Integers, Sequences, FiniteSets, TLC

\* ------------------------------------------------------------------ bounds
MaxAnalysts == 2
MaxTurns == 2
MaxListLen == 1
MaxClock == 2
MaxRetries == 3
MaxThreshold == 2
MaxCalls == 5
MaxTime == 3
MaxCacheSize == 2
MaxRequests == 2

\* -------------------------------------------------------- program constants
DefaultMaxTurns == 2
SearchMaxRetries == 3
DefaultFeedback == <<"a","p","p","r","o","v","e">>

\* ------------------------------------------------------------------ strings
\* A string is a sequence of one-character strings.
UpperToLower ==
    ("A" :> "a") @@ ("B" :> "b") @@ ("C" :> "c") @@ ("D" :> "d") @@
    ("E" :> "e") @@ ("F" :> "f") @@ ("G" :> "g") @@ ("H" :> "h") @@
    ("I" :> "i") @@ ("J" :> "j") @@ ("K" :> "k") @@ ("L" :> "l") @@
    ("M" :> "m") @@ ("N" :> "n") @@ ("O" :> "o") @@ ("P" :> "p") @@
    ("Q" :> "q") @@ ("R" :> "r") @@ ("S" :> "s") @@ ("T" :> "t") @@
    ("U" :> "u") @@ ("V" :> "v") @@ ("W" :> "w") @@ ("X" :> "x") @@
    ("Y" :> "y") @@ ("Z" :> "z")

LowerChar(c) == IF c \in DOMAIN UpperToLower THEN UpperToLower[c] ELSE c

\* str.lower()
Lower(s) == [i \in 1..Len(s) |-> LowerChar(s[i])]

IsSpace(c) == c \in {" ", "\n", "\t"}

RECURSIVE LStrip(_)
LStrip(s) == IF s # <<>> /\ IsSpace(Head(s)) THEN LStrip(Tail(s)) ELSE s

RECURSIVE RStrip(_)
RStrip(s) ==
    IF s # <<>> /\ IsSpace(s[Len(s)]) THEN RStrip(SubSeq(s, 1, Len(s) - 1)) ELSE s

\* str.strip()
Strip(s) == RStrip(LStrip(s))

\* `sub in s` for strings
Contains(sub, s) ==
    \E i \in 0..(Len(s) - Len(sub)) : SubSeq(s, i + 1, i + Len(sub)) = sub

\* ----------------------------------------------------------------- messages
HumanMessage(c) == [type |-> "human", name |-> "none", content |-> c]
AIMessage(c, n) == [type |-> "ai", name |-> n, content |-> c]

Topic == <<"A","I">>

\* f"So you said you were writing an article on {topic}?"
OpeningText(topic) == <<"S","o"," ">> \o topic \o <<"?">>
QuestionText == <<"Q","?">>
ThanksText == <<"T","H","A","N","K","S","!">>
AnswerText == <<"A",".">>

\* what llm.invoke may return to generate_question (after the AIMessage cast)
QuestionOutputs ==
    { AIMessage(QuestionText, "none"),
      AIMessage(ThanksText, "none"),
      AIMessage(QuestionText, "expert") }

\* what a search node may meet: results, no results, an empty query, an error
SearchOutcomes == {"hit", "empty", "noquery", "raise"}

\* ------------------------------------------------------------ route_messages
conclusion_phrases ==
    { <<"t","h","a","n","k"," ","y","o","u">>,
      <<"t","h","a","n","k","s">>,
      <<"t","h","a","t","'","s"," ","a","l","l">>,
      <<"t","h","a","t","'","l","l"," ","b","e"," ","a","l","l">>,
      <<"g","o","o","d","b","y","e">>,
      <<"t","h","a","t","'","s"," ","e","v","e","r","y","t","h","i","n","g">> }

IsExpert(m) == m.type = "ai" /\ m.name = "expert"

num_responses(messages) ==
    Cardinality({i \in 1..Len(messages) : IsExpert(messages[i])})

\* dict.get(key, default)
StateGet(state, key, default) ==
    IF key \in DOMAIN state THEN state[key] ELSE default

AnalystConcluded(messages) ==
    /\ messages # <<>>
    /\ messages[Len(messages)].type = "human"
    /\ \E phrase \in conclusion_phrases :
          Contains(phrase, Lower(messages[Len(messages)].content))

\* route_messages with two turns of slack on the turn limit
route_messages_slack(state) ==
    LET messages == StateGet(state, "messages", <<>>)
        max_num_turns == StateGet(state, "max_num_turns", DefaultMaxTurns)
    IN  IF AnalystConcluded(messages) THEN "save_interview"
        ELSE IF num_responses(messages) < max_num_turns + 2 THEN "ask_question"
        ELSE "save_interview"

\* a router that ends the interview at write_section
route_messages_skip(state) ==
    LET messages == StateGet(state, "messages", <<>>)
        max_num_turns == StateGet(state, "max_num_turns", DefaultMaxTurns)
    IN  IF num_responses(messages) < max_num_turns THEN "ask_question"
        ELSE "write_section"

route_messages(state) ==
    LET messages == StateGet(state, "messages", <<>>)
        max_num_turns == StateGet(state, "max_num_turns", DefaultMaxTurns)
    IN  IF AnalystConcluded(messages) THEN "save_interview"
        ELSE IF num_responses(messages) < max_num_turns THEN "ask_question"
        ELSE "save_interview"

\* the targets declared with the conditional edges
route_messages_targets == {"ask_question", "save_interview"}

initiate_all_interviews_targets == {"create_analysts", "conduct_interview"}

\* ------------------------------------------------------------------ reducers
\* Channel update of a compiled StateGraph: annotated fields are appended to,
\* every other field is replaced.
ApplyUpdate(state, update, appendFields) ==
    [k \in DOMAIN state \cup DOMAIN update |->
        IF k \in DOMAIN update
        THEN IF k \in appendFields /\ k \in DOMAIN state
             THEN state[k] \o update[k]
             ELSE update[k]
        ELSE state[k]]

NoWrites == [n \in {} |-> <<>>]

InterviewAppend == {"messages", "context"}

\* --------------------------------------------------------------- interviews
VARIABLES
    env,        \* repertoire of the collaborators during this run
    iv,         \* interview runs in flight: index -> interview state
    thr,        \* research threads: thread id -> thread
    memo,       \* outputs a deterministic LLM has given, by prompt
    tids,       \* thread ids the callers use
    call,       \* a call of merge_state_updates: its arguments and its result
    app,        \* the web application: APP_STATE, its handlers, the saver
    rt,         \* a call of a function wrapped by retry_with_backoff
    cb,         \* the circuit breaker of a service and the calls through it
    stool       \* a search tool: its cache, its rate limiter, the clock

ivars == <<env, iv>>
rvars == <<thr, memo, tids>>
gvars == <<env, iv, thr, memo, tids>>
xvars == <<rt, cb, stool>>
uvars == <<call, app, rt, cb, stool>>
vars == <<env, iv, thr, memo, tids, call, app, rt, cb, stool>>

\* ------------------------------------------------------ merge_state_updates
\* A Python value is a list or a scalar: items holds the elements of a list,
\* or the scalar alone.
PyList(items) == [list |-> TRUE, items |-> items]
PyScalar(x) == [list |-> FALSE, items |-> <<x>>]

additive_fields == {"context", "sections"}

\* new_state[key] + value raises TypeError when new_state[key] is not a list
merge_state_updates_raises(current_state, updates) ==
    \E key \in DOMAIN updates \cap additive_fields \cap DOMAIN current_state :
        ~current_state[key].list

\* merge_state_updates: the dictionary returned when no addition raises
merge_state_updates(current_state, updates) ==
    [key \in DOMAIN current_state \cup DOMAIN updates |->
        IF key \notin DOMAIN updates THEN current_state[key]
        ELSE IF key \in additive_fields /\ key \in DOMAIN current_state
             THEN IF updates[key].list
                  THEN PyList(current_state[key].items \o updates[key].items)
                  ELSE PyList(current_state[key].items \o <<updates[key].items[1]>>)
             ELSE updates[key]]

NoDict == [key \in {} |-> PyList(<<>>)]

\* The dictionaries of a call are objects of a heap, a sequence indexed by
\* reference. new_state = current_state with no copy: both names, one object
dict_alias(heap, ref) == [ref |-> ref, heap |-> heap]

\* current_state.copy(): a new object with the items of the one copied
dict_copy(heap, ref) == [ref |-> Len(heap) + 1, heap |-> Append(heap, heap[ref])]

\* merge_state_updates on the heap: reference 1 is the caller's current_state,
\* the assignments go to the object new_state names, and value + list builds
\* a new list
merge_state_updates_call(current_state, updates) ==
    LET c == dict_copy(<<current_state>>, 1)
    IN  [ref |-> c.ref,
         heap |-> [c.heap EXCEPT ![c.ref] = merge_state_updates(@, updates)]]

\* a call of merge_state_updates or of a node executor: fn is the function,
\* given the state passed, current_state the caller's object as it is now,
\* updates and out the other inputs, new_state the dictionary returned
NoCall ==
    [phase |-> "none", fn |-> "none", given |-> NoDict, current_state |-> NoDict,
     updates |-> NoDict, out |-> <<>>, new_state |-> NoDict]

\* ------------------------------------------------------ the web application
\* the event listeners that run the graph
Listeners == {"start", "approve"}

\* thread ids: "research-" and the wall clock to the second
ThreadIds == 1..MaxClock

\* what the saver holds for a thread id: the pending node, the feedback and
\* the analysts of the values, and the caller that wrote it last
NoCheckpoint == [next |-> "none", feedback |-> <<>>, analysts |-> <<>>, writer |-> "none"]

\* a handler: where it is, the thread id of its config, the feedback it was
\* given, the channels of its invoke, and whether its invoke resumes
IdleHandler ==
    [pc |-> "idle", thread_id |-> 0, feedback |-> <<>>, local |-> NoCheckpoint,
     resumed |-> FALSE]

\* APP_STATE (thread_id 0 is None), the clock, the saver and the handlers
NoApp ==
    [thread_id |-> 0, current_research |-> FALSE, now |-> 1,
     saver |-> [id \in ThreadIds |-> NoCheckpoint],
     handlers |-> [l \in Listeners |-> IdleHandler]]

\* no wrapped call in progress
NoRetry ==
    [impl |-> "none", max_retries |-> 0, on_retry |-> "none", attempt |-> 0,
     last_exception |-> "None", outs |-> <<>>, pc |-> "none", result |-> "None"]

\* no circuit breaker registered
NoBreaker == [state |-> "none"]

\* no search tool constructed
NoTool == [on |-> FALSE]

\* An interview run: the InterviewState channels in st (the input's keys; the
\* appended channels start empty), the node(s) pending in pc, the writes of
\* the search superstep not yet applied, and the count of completed
\* AskQuestion/AnswerQuestion cycles.
NewInterview(input) ==
    [ st |-> ApplyUpdate([messages |-> <<>>, context |-> <<>>], input, InterviewAppend),
      pc |-> "ask_question",
      writes |-> NoWrites,
      cycles |-> 0 ]

\* generate_question: the update for LLM output q
generate_question(state, q) == [messages |-> <<q>>]

\* generate_answer: the LLM output is tagged as the expert
generate_answer(state) == [messages |-> <<AIMessage(AnswerText, "expert")>>]

Doc(tool) == <<tool>>
EmptyDoc == <<>>

\* a search node that formats whatever it has when the collaborator raises
search_node_formatting(state, tool, outcome) ==
    IF StateGet(state, "messages", <<>>) = <<>> THEN [context |-> <<>>]
    ELSE CASE outcome = "hit" -> [context |-> <<Doc(tool)>>]
           [] outcome = "empty" -> [context |-> <<EmptyDoc>>]
           [] outcome = "noquery" -> [context |-> <<>>]
           [] outcome = "raise" -> [context |-> <<EmptyDoc>>]

\* search_web_node / search_wikipedia_node: the context update
search_node(state, tool, outcome) ==
    IF StateGet(state, "messages", <<>>) = <<>> THEN [context |-> <<>>]
    ELSE CASE outcome = "hit" -> [context |-> <<Doc(tool)>>]
           [] outcome = "empty" -> [context |-> <<EmptyDoc>>]
           [] outcome = "noquery" -> [context |-> <<>>]
           [] outcome = "raise" -> [context |-> <<>>]

\* get_buffer_string: one "Role: content" line per message
get_buffer_string(messages) ==
    [i \in 1..Len(messages) |->
        <<IF messages[i].type = "human" THEN "Human" ELSE "AI", messages[i].content>>]

save_interview(state) ==
    [interview |-> get_buffer_string(StateGet(state, "messages", <<>>))]

write_section(state) ==
    [sections |-> << [analyst |-> state.analyst,
                      docs |-> Len(StateGet(state, "context", <<>>))] >>]

HasAnalyst(state) == "analyst" \in DOMAIN state

SetIv(i, b) == iv' = [iv EXCEPT ![i] = b]

FailIv(i) == SetIv(i, [iv[i] EXCEPT !.pc = "failed"])

AskQuestion(i) ==
    /\ iv[i].pc = "ask_question"
    /\ \/ /\ HasAnalyst(iv[i].st)
          /\ \E q \in env.questions :
                SetIv(i, [iv[i] EXCEPT
                    !.st = ApplyUpdate(@, generate_question(iv[i].st, q), InterviewAppend),
                    !.pc = "search"])
       \/ FailIv(i)
    /\ UNCHANGED env

\* answer_question triggered by the first search that finishes
SearchDone_first(i, mine, other, upd) ==
    SetIv(i, [iv[i] EXCEPT
        !.st = ApplyUpdate(@, upd, InterviewAppend),
        !.writes = NoWrites,
        !.pc = "answer_question"])

\* One of the two search nodes of the superstep; the one that finishes last
\* ends the superstep: both writes are applied, search_web's first.
SearchDone(i, mine, other, upd) ==
    LET w == (mine :> upd) @@ iv[i].writes
    IN  IF other \notin DOMAIN w
        THEN SetIv(i, [iv[i] EXCEPT !.writes = w])
        ELSE SetIv(i, [iv[i] EXCEPT
                !.st = ApplyUpdate(ApplyUpdate(@, w["search_web"], InterviewAppend),
                                   w["search_wikipedia"], InterviewAppend),
                !.writes = NoWrites,
                !.pc = "answer_question"])

SearchWeb(i) ==
    /\ iv[i].pc = "search"
    /\ "search_web" \notin DOMAIN iv[i].writes
    /\ \E o \in env.searches :
          SearchDone(i, "search_web", "search_wikipedia",
                     search_node(iv[i].st, "web", o))
    /\ UNCHANGED env

SearchWiki(i) ==
    /\ iv[i].pc = "search"
    /\ "search_wikipedia" \notin DOMAIN iv[i].writes
    /\ \E o \in env.searches :
          SearchDone(i, "search_wikipedia", "search_web",
                     search_node(iv[i].st, "wiki", o))
    /\ UNCHANGED env

\* generate_answer followed by the conditional edge route_messages
AnswerQuestion(i) ==
    /\ iv[i].pc = "answer_question"
    /\ \/ /\ HasAnalyst(iv[i].st)
          /\ LET st2 == ApplyUpdate(iv[i].st, generate_answer(iv[i].st), InterviewAppend)
             IN  SetIv(i, [iv[i] EXCEPT
                    !.st = st2,
                    !.pc = route_messages(st2),
                    !.cycles = @ + 1])
       \/ FailIv(i)
    /\ UNCHANGED env

SaveInterview(i) ==
    /\ iv[i].pc = "save_interview"
    /\ SetIv(i, [iv[i] EXCEPT
          !.st = ApplyUpdate(@, save_interview(iv[i].st), InterviewAppend),
          !.pc = "write_section"])
    /\ UNCHANGED env

WriteSection(i) ==
    /\ iv[i].pc = "write_section"
    /\ \/ /\ HasAnalyst(iv[i].st)
          /\ SetIv(i, [iv[i] EXCEPT
                !.st = ApplyUpdate(@, write_section(iv[i].st), InterviewAppend),
                !.pc = "done"])
       \/ FailIv(i)
    /\ UNCHANGED env

InterviewStep(i) ==
    \/ AskQuestion(i)
    \/ SearchWeb(i)
    \/ SearchWiki(i)
    \/ AnswerQuestion(i)
    \/ SaveInterview(i)
    \/ WriteSection(i)

\* ------------------------------------------------------------ report text
NL == <<"\n">>
Rule == <<"-","-","-">>
InsightsHeader == <<"#","#"," ","I","n","s","i","g","h","t","s">>
SourcesHeader == <<"#","#"," ","S","o","u","r","c","e","s">>
SourcesSeparator == NL \o SourcesHeader \o NL

StartsWith(s, prefix) ==
    Len(prefix) <= Len(s) /\ SubSeq(s, 1, Len(prefix)) = prefix

\* position of the first occurrence of sub in s (0 when there is none)
Find(sub, s) ==
    IF Contains(sub, s)
    THEN 1 + CHOOSE i \in 0..(Len(s) - Len(sub)) :
                /\ SubSeq(s, i + 1, i + Len(sub)) = sub
                /\ \A j \in 0..(i - 1) : SubSeq(s, j + 1, j + Len(sub)) # sub
    ELSE 0

RECURSIVE Join(_, _)
Join(sep, parts) ==
    IF parts = <<>> THEN <<>>
    ELSE IF Len(parts) = 1 THEN parts[1]
    ELSE parts[1] \o sep \o Join(sep, Tail(parts))

\* an assembly that cuts the content at the first "## Sources", wherever it is
assemble_report_cut(introduction, content, conclusion) ==
    LET cleaned == IF StartsWith(content, InsightsHeader)
                   THEN Strip(SubSeq(content, Len(InsightsHeader) + 1, Len(content)))
                   ELSE content
        at == Find(SourcesHeader, cleaned)
        body == IF at > 0 THEN SubSeq(cleaned, 1, at - 1) ELSE cleaned
        sources == IF at > 0
                   THEN SubSeq(cleaned, at + Len(SourcesHeader), Len(cleaned))
                   ELSE <<>>
        report_parts ==
            <<Strip(introduction), Rule, Strip(body), Rule, Strip(conclusion)>>
            \o (IF at > 0 THEN <<<<>>, SourcesHeader, Strip(sources)>> ELSE <<>>)
    IN  Join(NL \o NL, report_parts)

\* the assembly of the report once the components are validated
assemble_report(introduction, content, conclusion) ==
    LET cleaned == IF StartsWith(content, InsightsHeader)
                   THEN Strip(SubSeq(content, Len(InsightsHeader) + 1, Len(content)))
                   ELSE content
        at == Find(SourcesSeparator, cleaned)
        split == Contains(SourcesHeader, cleaned) /\ at > 0
        body == IF split THEN SubSeq(cleaned, 1, at - 1) ELSE cleaned
        sources == IF split
                   THEN SubSeq(cleaned, at + Len(SourcesSeparator), Len(cleaned))
                   ELSE <<>>
        report_parts ==
            <<Strip(introduction), Rule, Strip(body), Rule, Strip(conclusion)>>
            \o (IF sources # <<>> THEN <<<<>>, SourcesHeader, Strip(sources)>> ELSE <<>>)
    IN  Join(NL \o NL, report_parts)

\* finalize_report without the check of the conclusion
finalize_report_lax(state) ==
    LET introduction == StateGet(state, "introduction", <<>>)
        content == StateGet(state, "content", <<>>)
        conclusion == StateGet(state, "conclusion", <<>>)
    IN  IF introduction = <<>> \/ content = <<>>
        THEN [ok |-> FALSE, update |-> NoWrites]
        ELSE [ok |-> TRUE,
              update |-> [final_report |->
                            assemble_report(introduction, content, conclusion)]]

\* finalize_report: ok is FALSE when it raises ValueError
finalize_report(state) ==
    LET introduction == StateGet(state, "introduction", <<>>)
        content == StateGet(state, "content", <<>>)
        conclusion == StateGet(state, "conclusion", <<>>)
    IN  IF introduction = <<>> \/ content = <<>> \/ conclusion = <<>>
        THEN [ok |-> FALSE, update |-> NoWrites]
        ELSE [ok |-> TRUE,
              update |-> [final_report |->
                            assemble_report(introduction, content, conclusion)]]

\* ------------------------------------------------------- research workflow
Approve == <<"a","p","p","r","o","v","e">>

Feedbacks ==
    { <<>>,
      Approve,
      <<" ","A","P","P","R","O","V","E","\n">>,
      <<"n","o">> }

ResearchFields ==
    {"topic", "max_analysts", "human_analyst_feedback", "analysts", "sections",
     "introduction", "content", "conclusion", "final_report"}

ResearchAppend == {"sections"}

\* run_research / create_initial_research_state: the initial state
initial_state(max_analysts, feedback) ==
    [topic |-> Topic, max_analysts |-> max_analysts,
     human_analyst_feedback |-> feedback, analysts |-> <<>>, sections |-> <<>>,
     introduction |-> <<>>, content |-> <<>>, conclusion |-> <<>>,
     final_report |-> <<>>]

Send(node, arg) == [node |-> node, arg |-> arg]

\* the Send list of the router, one Send per analyst in the list's order
interview_sends(state, analysts) ==
    [i \in 1..Len(analysts) |->
        Send("conduct_interview",
             [analyst |-> analysts[i],
              messages |-> <<HumanMessage(OpeningText(state.topic))>>])]

\* the router comparing the feedback as typed
initiate_all_interviews_exact(state) ==
    LET human_analyst_feedback ==
            StateGet(state, "human_analyst_feedback", DefaultFeedback)
        analysts == StateGet(state, "analysts", <<>>)
    IN  IF human_analyst_feedback # Approve
        THEN [kind |-> "node", target |-> "create_analysts", sends |-> <<>>]
        ELSE IF analysts = <<>>
        THEN [kind |-> "raise", target |-> "", sends |-> <<>>]
        ELSE [kind |-> "sends", target |-> "conduct_interview",
              sends |-> interview_sends(state, analysts)]

\* the router taking an empty feedback for an approval
initiate_all_interviews_lenient(state) ==
    LET human_analyst_feedback ==
            StateGet(state, "human_analyst_feedback", DefaultFeedback)
        analysts == StateGet(state, "analysts", <<>>)
    IN  IF Strip(Lower(human_analyst_feedback)) \notin {Approve, <<>>}
        THEN [kind |-> "node", target |-> "create_analysts", sends |-> <<>>]
        ELSE IF analysts = <<>>
        THEN [kind |-> "raise", target |-> "", sends |-> <<>>]
        ELSE [kind |-> "sends", target |-> "conduct_interview",
              sends |-> interview_sends(state, analysts)]

\* the gate router: a node name, a list of Send, or ValueError
initiate_all_interviews(state) ==
    LET human_analyst_feedback ==
            StateGet(state, "human_analyst_feedback", DefaultFeedback)
        analysts == StateGet(state, "analysts", <<>>)
    IN  IF Strip(Lower(human_analyst_feedback)) # Approve
        THEN [kind |-> "node", target |-> "create_analysts", sends |-> <<>>]
        ELSE IF analysts = <<>>
        THEN [kind |-> "raise", target |-> "", sends |-> <<>>]
        ELSE [kind |-> "sends", target |-> "conduct_interview",
              sends |-> interview_sends(state, analysts)]

NoFeedbackText == <<"N","o","n","e">>

\* format_analyst_instructions: the feedback as it appears in the prompt
PromptFeedback(human_feedback) ==
    IF Strip(human_feedback) = <<>> THEN NoFeedbackText ELSE Strip(human_feedback)

\* the Perspectives the LLM may return: none, one analyst, or one analyst more
\* than any max_analysts asks for
GenOutputs ==
    {<<>>, <<1>>, [i \in 1..(MaxAnalysts + 1) |-> MaxAnalysts + 2 - i]}

\* create_analysts keeping every persona of the output
create_analysts_untruncated(state, out) ==
    IF out = <<>> THEN [ok |-> FALSE, update |-> NoWrites]
    ELSE [ok |-> TRUE, update |-> [analysts |-> out]]

\* create_analysts for LLM output out: ok is FALSE when it raises
create_analysts(state, out) ==
    LET topic == StateGet(state, "topic", <<>>)
        max_analysts == StateGet(state, "max_analysts", 0)
    IN  IF topic = <<>> \/ max_analysts = 0 \/ max_analysts < 1 \/ max_analysts > 10
           \/ out = <<>>
        THEN [ok |-> FALSE, update |-> NoWrites]
        ELSE [ok |-> TRUE,
              update |-> [analysts |->
                    IF Len(out) > max_analysts THEN SubSeq(out, 1, max_analysts)
                    ELSE out]]

\* human_feedback: the no-op node
\* a gate node that writes the approval itself
human_feedback_approving(state) == [human_analyst_feedback |-> DefaultFeedback]

human_feedback(state) == NoWrites

IntroText == <<"#"," ","T">>
ConclusionText == <<"E","n","d">>
ContentPlain == <<"B","o","d","y">>
ContentFull ==
    InsightsHeader \o NL \o ContentPlain \o SourcesSeparator \o <<"[","1","]">>

IntroOutputs == {<<>>, IntroText}
ContentOdd == ContentPlain \o <<" ">> \o SourcesHeader
ContentOutputs == {<<>>, ContentPlain, ContentFull, ContentOdd}
ConclusionOutputs == {<<>>, ConclusionText}

\* write_report raises without sections; the other two writers only warn
write_report(state, out) ==
    IF StateGet(state, "topic", <<>>) = <<>> \/ StateGet(state, "sections", <<>>) = <<>>
    THEN [ok |-> FALSE, update |-> NoWrites]
    ELSE [ok |-> TRUE, update |-> [content |-> out]]

write_introduction(state, out) ==
    IF StateGet(state, "topic", <<>>) = <<>>
    THEN [ok |-> FALSE, update |-> NoWrites]
    ELSE [ok |-> TRUE, update |-> [introduction |-> out]]

write_conclusion(state, out) ==
    IF StateGet(state, "topic", <<>>) = <<>>
    THEN [ok |-> FALSE, update |-> NoWrites]
    ELSE [ok |-> TRUE, update |-> [conclusion |-> out]]

\* a graph that interrupts before create_analysts instead
build_research_graph_early(enable_interrupts, checkpointer) ==
    [interrupt_before |-> IF enable_interrupts THEN {"create_analysts"} ELSE {},
     checkpointer |-> checkpointer \/ enable_interrupts]

\* build_research_graph: what compile() is given
build_research_graph(enable_interrupts, checkpointer) ==
    [interrupt_before |-> IF enable_interrupts THEN {"human_feedback"} ELSE {},
     checkpointer |-> checkpointer \/ enable_interrupts]

NoGraph == [interrupt_before |-> {}, checkpointer |-> FALSE]
NoState == NoWrites

\* a thread: the compiled graph it runs on, the input of its first invoke, the
\* max_interview_turns the caller asked run_research for, the
\* run in progress (values, next, sends, writes, completed) and the checkpoint
\* the saver holds
NewThread ==
    [graph |-> NoGraph, input |-> NoState, max_interview_turns |-> 0,
     status |-> "new", values |-> NoState,
     next |-> {}, sends |-> <<>>, writes |-> NoWrites, completed |-> <<>>,
     ckpt |-> <<>>]

Running(t) == thr[t].status = "running"
Idle == \A u \in tids : ~Running(u)

Checkpoint(values, next, sends) == [values |-> values, next |-> next, sends |-> sends]

\* the end of a superstep that never interrupts
Commit_through(th, values, next, sends) ==
    [th EXCEPT
        !.values = values,
        !.next = next,
        !.sends = sends,
        !.writes = NoWrites,
        !.completed = <<>>,
        !.ckpt = IF th.graph.checkpointer
                 THEN <<Checkpoint(values, next, sends)>> ELSE @,
        !.status = IF next = {} THEN "done" ELSE "running"]

\* End of a superstep: the writes are applied, the next nodes are those the
\* edges name, the checkpoint is saved, and the run stops when nothing is
\* next or when a next node is in interrupt_before.
Commit(th, values, next, sends) ==
    [th EXCEPT
        !.values = values,
        !.next = next,
        !.sends = sends,
        !.writes = NoWrites,
        !.completed = <<>>,
        !.ckpt = IF th.graph.checkpointer
                 THEN <<Checkpoint(values, next, sends)>> ELSE @,
        !.status = IF next = {} THEN "done"
                   ELSE IF next \cap th.graph.interrupt_before # {} THEN "paused"
                   ELSE "running"]

\* A node raised: invoke() raises; the saved checkpoint, if any, is untouched.
Raise(th) ==
    IF th.ckpt # <<>>
    THEN [th EXCEPT
            !.status = "failed",
            !.values = th.ckpt[1].values,
            !.next = th.ckpt[1].next,
            !.sends = th.ckpt[1].sends,
            !.writes = NoWrites,
            !.completed = <<>>]
    ELSE [th EXCEPT
            !.status = "failed",
            !.values = NoState,
            !.next = {},
            !.sends = <<>>,
            !.writes = NoWrites,
            !.completed = <<>>]

SetThr(t, th) == thr' = [thr EXCEPT ![t] = th]

\* the interview runs the Send list starts
Branches(sends) == [i \in 1..Len(sends) |-> NewInterview(sends[i].arg)]

\* an LLM that may answer a prompt differently each time
LlmOutputs_fresh(node, prompt, repertoire) == repertoire

\* a deterministic LLM repeats itself on a prompt it has seen
LlmOutputs(node, prompt, repertoire) ==
    IF env.deterministic /\ prompt \in DOMAIN memo[node]
    THEN {memo[node][prompt]}
    ELSE repertoire

Remember(node, prompt, out) ==
    memo' = IF env.deterministic
            THEN [memo EXCEPT ![node] = (prompt :> out) @@ @]
            ELSE memo

\* graph.invoke(initial_state, config) on a new thread (run_research,
\* stream_research, the app's start_research)
StartResearch(t) ==
    /\ t \in tids
    /\ Idle
    /\ \/ thr[t].status = "new"
       \/ thr[t].status = "failed" /\ thr[t].ckpt = <<>>
    /\ \E enable_interrupts \in BOOLEAN, checkpointer \in BOOLEAN,
          max_analysts \in 1..MaxAnalysts, feedback \in Feedbacks,
          max_interview_turns \in 1..MaxTurns :
          LET graph == build_research_graph(enable_interrupts, checkpointer)
              input == initial_state(max_analysts, feedback)
          IN  SetThr(t, Commit([NewThread EXCEPT !.graph = graph, !.input = input,
                                    !.max_interview_turns = max_interview_turns,
                                    !.status = "running"],
                               input, {"create_analysts"}, <<>>))
    /\ iv' = <<>>
    /\ UNCHANGED <<env, memo, tids>>

\* update_state that also marks the gate as run: the router's result is pending
update_state_as_gate(saved, update) ==
    LET values == ApplyUpdate(saved.values, update, ResearchAppend)
        route == initiate_all_interviews(values)
    IN  Checkpoint(values, {route.target}, route.sends)

\* graph.update_state(config, update): the update goes through the reducers
\* into the saved values; what is pending stays pending
update_state(saved, update) ==
    Checkpoint(ApplyUpdate(saved.values, update, ResearchAppend),
               saved.next, saved.sends)

\* continue_research(graph, thread_id, human_feedback): update_state when a
\* feedback is given, then invoke(None, config)
ContinueResearch(t) ==
    /\ t \in tids
    /\ Idle
    /\ thr[t].ckpt # <<>>
    /\ thr[t].status \in {"paused", "failed"}
    /\ \E feedback \in {<<>>} \cup {<<f>> : f \in Feedbacks} :
          /\ feedback # <<>> => thr[t].status = "paused"
          /\ LET saved == IF feedback = <<>> THEN thr[t].ckpt[1]
                          ELSE update_state(thr[t].ckpt[1],
                                    [human_analyst_feedback |-> feedback[1]])
             IN  /\ SetThr(t, [thr[t] EXCEPT
                        !.status = "running",
                        !.values = saved.values,
                        !.next = saved.next,
                        !.sends = saved.sends,
                        !.completed = <<>>,
                        !.ckpt = <<saved>>])
                 /\ iv' = IF "conduct_interview" \in saved.next
                          THEN Branches(saved.sends) ELSE <<>>
    /\ UNCHANGED <<env, memo, tids>>

CreateAnalysts(t) ==
    /\ Running(t)
    /\ "create_analysts" \in thr[t].next
    /\ LET state == thr[t].values
           prompt == <<StateGet(state, "max_analysts", 0),
                       PromptFeedback(StateGet(state, "human_analyst_feedback", <<>>))>>
       IN  \/ \E out \in LlmOutputs("create_analysts", prompt, GenOutputs) :
                LET r == create_analysts(state, out)
                IN  /\ SetThr(t, IF r.ok
                                 THEN Commit(thr[t],
                                        ApplyUpdate(state, r.update, ResearchAppend),
                                        {"human_feedback"}, <<>>)
                                 ELSE Raise(thr[t]))
                    /\ Remember("create_analysts", prompt, out)
           \/ SetThr(t, Raise(thr[t])) /\ UNCHANGED memo
    /\ UNCHANGED <<env, iv, tids>>

\* the human_feedback node and its conditional edge
HumanFeedbackGate(t) ==
    /\ Running(t)
    /\ "human_feedback" \in thr[t].next
    /\ LET state == ApplyUpdate(thr[t].values, human_feedback(thr[t].values),
                                ResearchAppend)
           route == initiate_all_interviews(state)
       IN  IF route.kind = "raise"
           THEN SetThr(t, Raise(thr[t])) /\ iv' = <<>>
           ELSE /\ SetThr(t, Commit(thr[t], state, {route.target}, route.sends))
                /\ iv' = Branches(route.sends)
    /\ UNCHANGED <<env, memo, tids>>

\* one node of one interview of the fan-out
ConductInterview(t, i) ==
    /\ Running(t)
    /\ "conduct_interview" \in thr[t].next
    /\ i \in DOMAIN iv
    /\ InterviewStep(i)
    /\ SetThr(t, IF iv'[i].pc = "done"
                 THEN [thr[t] EXCEPT !.completed = Append(@, i)]
                 ELSE thr[t])
    /\ UNCHANGED <<memo, tids>>

\* a subgraph node that hands its whole final state to the parent
SubgraphOutput_whole(st) == st

\* what a finished interview hands to the parent: the keys both states share
SubgraphOutput(st) == [k \in DOMAIN st \cap ResearchFields |-> st[k]]

\* the writes applied in the order the tasks finished
MergeOrder_completion(n, completed) == completed

\* the order in which the writes of the finished tasks are applied: the order
\* of the tasks, which is the order of the Send list
MergeOrder(n, completed) == [i \in 1..n |-> i]

\* the merge through a sections channel without its reducer
RECURSIVE MergeBranches_overwrite(_, _, _)
MergeBranches_overwrite(values, branches, order) ==
    IF order = <<>> THEN values
    ELSE MergeBranches_overwrite(
            ApplyUpdate(values, SubgraphOutput(branches[Head(order)].st), {}),
            branches, Tail(order))

\* the outputs of the interviews go through the reducer of sections, one
\* after the other
RECURSIVE MergeBranches(_, _, _)
MergeBranches(values, branches, order) ==
    IF order = <<>> THEN values
    ELSE MergeBranches(
            ApplyUpdate(values, SubgraphOutput(branches[Head(order)].st), ResearchAppend),
            branches, Tail(order))

\* a join that merges the interviews that ended and drops the ones that raised
JoinInterviews_partial(t) ==
    /\ Running(t)
    /\ "conduct_interview" \in thr[t].next
    /\ \A i \in DOMAIN iv : iv[i].pc \in {"done", "failed"}
    /\ SetThr(t, [Commit(thr[t],
            MergeBranches(thr[t].values, iv, MergeOrder(Len(iv), thr[t].completed)),
            {"write_report", "write_introduction", "write_conclusion"}, <<>>)
                  EXCEPT !.completed = thr[t].completed])
    /\ iv' = <<>>
    /\ UNCHANGED <<env, memo, tids>>

\* the fan-out superstep ends when every interview has ended
JoinInterviews(t) ==
    /\ Running(t)
    /\ "conduct_interview" \in thr[t].next
    /\ \A i \in DOMAIN iv : iv[i].pc = "done"
    /\ SetThr(t, [Commit(thr[t],
            MergeBranches(thr[t].values, iv, MergeOrder(Len(iv), thr[t].completed)),
            {"write_report", "write_introduction", "write_conclusion"}, <<>>)
                  EXCEPT !.completed = thr[t].completed])
    /\ iv' = <<>>
    /\ UNCHANGED <<env, memo, tids>>

\* an interview raised: the superstep, and with it invoke(), fails
InterviewRaised(t) ==
    /\ Running(t)
    /\ "conduct_interview" \in thr[t].next
    /\ \E i \in DOMAIN iv : iv[i].pc = "failed"
    /\ SetThr(t, [Raise(thr[t]) EXCEPT !.completed = thr[t].completed])
    /\ iv' = <<>>
    /\ UNCHANGED <<env, memo, tids>>

Writers == {"write_report", "write_introduction", "write_conclusion"}

RECURSIVE ApplyWrites(_, _, _)
ApplyWrites(values, writes, nodes) ==
    IF nodes = <<>> THEN values
    ELSE ApplyWrites(ApplyUpdate(values, writes[Head(nodes)], ResearchAppend),
                     writes, Tail(nodes))

\* finalize_report triggered by write_report alone
WriterDone_eager(t, node, r) ==
    IF ~r.ok THEN SetThr(t, Raise(thr[t]))
    ELSE LET w == (node :> r.update) @@ thr[t].writes
         IN  IF "write_report" \notin DOMAIN w
             THEN SetThr(t, [thr[t] EXCEPT !.writes = w])
             ELSE SetThr(t, Commit(thr[t],
                    ApplyWrites(thr[t].values, w,
                        SelectSeq(<<"write_conclusion", "write_introduction",
                                    "write_report">>,
                                  LAMBDA n : n \in DOMAIN w)),
                    {"finalize_report"}, <<>>))

\* One writer of the writers' superstep; the last to finish ends the superstep.
WriterDone(t, node, r) ==
    IF ~r.ok THEN SetThr(t, Raise(thr[t]))
    ELSE LET w == (node :> r.update) @@ thr[t].writes
         IN  IF DOMAIN w # Writers
             THEN SetThr(t, [thr[t] EXCEPT !.writes = w])
             ELSE SetThr(t, Commit(thr[t],
                    ApplyWrites(thr[t].values, w,
                        <<"write_conclusion", "write_introduction", "write_report">>),
                    {"finalize_report"}, <<>>))

WriterReady(t, node) ==
    /\ Running(t)
    /\ node \in thr[t].next
    /\ node \notin DOMAIN thr[t].writes

WriteReport(t) ==
    /\ WriterReady(t, "write_report")
    /\ LET prompt == StateGet(thr[t].values, "sections", <<>>)
       IN  \/ \E out \in LlmOutputs("write_report", prompt, ContentOutputs) :
                /\ WriterDone(t, "write_report", write_report(thr[t].values, out))
                /\ Remember("write_report", prompt, out)
           \/ SetThr(t, Raise(thr[t])) /\ UNCHANGED memo
    /\ UNCHANGED <<env, iv, tids>>

WriteIntroduction(t) ==
    /\ WriterReady(t, "write_introduction")
    /\ LET prompt == StateGet(thr[t].values, "sections", <<>>)
       IN  \/ \E out \in LlmOutputs("write_introduction", prompt, IntroOutputs) :
                /\ WriterDone(t, "write_introduction",
                              write_introduction(thr[t].values, out))
                /\ Remember("write_introduction", prompt, out)
           \/ SetThr(t, Raise(thr[t])) /\ UNCHANGED memo
    /\ UNCHANGED <<env, iv, tids>>

WriteConclusion(t) ==
    /\ WriterReady(t, "write_conclusion")
    /\ LET prompt == StateGet(thr[t].values, "sections", <<>>)
       IN  \/ \E out \in LlmOutputs("write_conclusion", prompt, ConclusionOutputs) :
                /\ WriterDone(t, "write_conclusion",
                              write_conclusion(thr[t].values, out))
                /\ Remember("write_conclusion", prompt, out)
           \/ SetThr(t, Raise(thr[t])) /\ UNCHANGED memo
    /\ UNCHANGED <<env, iv, tids>>

FinalizeReport(t) ==
    /\ Running(t)
    /\ "finalize_report" \in thr[t].next
    /\ LET r == finalize_report(thr[t].values)
       IN  SetThr(t, IF r.ok
                     THEN Commit(thr[t],
                            ApplyUpdate(thr[t].values, r.update, ResearchAppend),
                            {}, <<>>)
                     ELSE Raise(thr[t]))
    /\ UNCHANGED <<env, iv, memo, tids>>

Tids == {1, 2}

NoMemo ==
    [n \in {"create_analysts", "write_report", "write_introduction", "write_conclusion"}
        |-> NoWrites]

\* collaborators that behave the same way through a whole research run
ResearchEnvs ==
    { [questions |-> {AIMessage(QuestionText, "none")}, searches |-> {"hit"},
       deterministic |-> FALSE],
      [questions |-> {AIMessage(ThanksText, "none")}, searches |-> {"empty"},
       deterministic |-> FALSE],
      [questions |-> {AIMessage(QuestionText, "expert")}, searches |-> {"raise"},
       deterministic |-> FALSE] }

Init ==
    /\ env \in ResearchEnvs
    /\ iv = <<>>
    /\ thr = [t \in Tids |-> NewThread]
    /\ memo = NoMemo
    /\ tids = {1}
    /\ call = NoCall
    /\ app = NoApp
    /\ rt = NoRetry
    /\ cb = NoBreaker
    /\ stool = NoTool

\* the engine runs one pending node of the thread being invoked
RunNode(t) ==
        \/ CreateAnalysts(t)
        \/ HumanFeedbackGate(t)
        \/ \E i \in 1..(MaxAnalysts + 1) : ConductInterview(t, i)
        \/ JoinInterviews(t)
        \/ InterviewRaised(t)
        \/ WriteReport(t)
        \/ WriteIntroduction(t)
        \/ WriteConclusion(t)
        \/ FinalizeReport(t)

Next ==
    \E t \in Tids :
        \/ StartResearch(t) /\ UNCHANGED uvars
        \/ ContinueResearch(t) /\ UNCHANGED uvars
        \/ RunNode(t) /\ UNCHANGED uvars

Spec == Init /\ [][Next]_vars

\* run_research with its default enable_interrupts=False: one invoke on a
\* graph compiled without interrupt and without checkpointer
RunResearch ==
    /\ thr[1].status = "new"
    /\ StartResearch(1)
    /\ thr'[1].graph = build_research_graph(FALSE, FALSE)

UngatedNext ==
    \/ RunResearch /\ UNCHANGED uvars
    \/ RunNode(1) /\ UNCHANGED uvars

\* a run whose searches return documents: every node of the workflow is reached
UngatedInit == Init /\ env.searches = {"hit"}

UngatedSpec == UngatedInit /\ [][UngatedNext]_vars

\* FinalizeReport(1) with the executor's result bound once
FinalizeStep ==
    /\ Running(1)
    /\ "finalize_report" \in thr[1].next
    /\ \E r \in {finalize_report(thr[1].values)} :
          SetThr(1, IF r.ok
                    THEN Commit(thr[1],
                           ApplyUpdate(thr[1].values, r.update, ResearchAppend),
                           {}, <<>>)
                    ELSE Raise(thr[1]))
    /\ UNCHANGED <<env, iv, memo, tids>>

\* the steps of RunNode(1) before finalize_report
EarlierStep ==
    \/ CreateAnalysts(1)
    \/ HumanFeedbackGate(1)
    \/ \E i \in 1..(MaxAnalysts + 1) : ConductInterview(1, i)
    \/ JoinInterviews(1)
    \/ InterviewRaised(1)
    \/ WriteReport(1)
    \/ WriteIntroduction(1)
    \/ WriteConclusion(1)

\* the engine runs the pending nodes of an invoked graph
FairUngatedSpec ==
    /\ UngatedSpec
    /\ WF_vars(EarlierStep /\ UNCHANGED uvars)
    /\ WF_vars(FinalizeStep /\ UNCHANGED uvars)

\* ------------------------------------------- the saved state of a thread
\* graph.get_state(config): it needs a checkpointer; for a thread id the saver
\* has no checkpoint of, the snapshot is empty
get_state(graph, ckpt) ==
    IF ~graph.checkpointer THEN [ok |-> FALSE, values |-> NoState, next |-> {}]
    ELSE IF ckpt = <<>> THEN [ok |-> TRUE, values |-> NoState, next |-> {}]
    ELSE [ok |-> TRUE, values |-> ckpt[1].values, next |-> ckpt[1].next]

\* get_research_state: the values of the snapshot, ValueError when
\* get_state raises
get_research_state(graph, ckpt) ==
    LET state_snapshot == get_state(graph, ckpt)
    IN  [ok |-> state_snapshot.ok, values |-> state_snapshot.values]

\* continue_research on a thread id without a checkpoint: the error it ends
\* with. update_state cannot tell which node the update is from, and
\* invoke(None, config) has nothing to resume and no input
continue_research_unsaved(graph, feedback) ==
    IF ~get_state(graph, <<>>).ok THEN "ValueError"
    ELSE IF feedback # <<>> THEN "InvalidUpdateError"
    ELSE "EmptyInputError"

\* the graphs a caller may pass for the thread id: the one the thread runs
\* on, any for a thread id never used
GraphsFor(t) ==
    IF thr[t].status = "new"
    THEN {build_research_graph(e, c) : e \in BOOLEAN, c \in BOOLEAN}
    ELSE {thr[t].graph}

\* get_research_state(graph, thread_id) between two runs
GetResearchState(t) ==
    /\ Idle
    /\ \E graph \in GraphsFor(t) :
          LET r == get_research_state(graph, thr[t].ckpt)
          IN  call' = [NoCall EXCEPT
                          !.fn = "get_research_state",
                          !.phase = IF r.ok THEN "returned" ELSE "raised",
                          !.given = thr[t].ckpt # <<>>,
                          !.new_state = r.values]
    /\ UNCHANGED <<gvars, app, xvars>>

\* continue_research(graph, thread_id, human_feedback) on a thread id that
\* has no checkpoint
ContinueResearchUnsaved(t) ==
    /\ Idle
    /\ thr[t].ckpt = <<>>
    /\ \E graph \in GraphsFor(t), feedback \in {<<>>, <<Approve>>} :
          call' = [NoCall EXCEPT
                      !.fn = "continue_research",
                      !.phase = "raised",
                      !.given = FALSE,
                      !.out = continue_research_unsaved(graph, feedback)]
    /\ UNCHANGED <<gvars, app, xvars>>

ApiNext ==
    \/ Next
    \/ \E t \in Tids : GetResearchState(t)
    \/ \E t \in Tids : ContinueResearchUnsaved(t)

ApiSpec == Init /\ [][ApiNext]_vars

\* ------------------------------------------- two threads, one set of executors
\* LLMs that answer a prompt the same way every time; the other collaborators
\* have one behaviour
PairEnv ==
    [questions |-> {AIMessage(QuestionText, "none")}, searches |-> {"hit"},
     deterministic |-> TRUE]

PairInit ==
    /\ env = PairEnv
    /\ iv = <<>>
    /\ thr = [t \in Tids |-> NewThread]
    /\ memo = NoMemo
    /\ tids = {1, 2}
    /\ call = NoCall
    /\ app = NoApp
    /\ rt = NoRetry
    /\ cb = NoBreaker
    /\ stool = NoTool

\* thread 1: run_research with its defaults, feedback "approve"
StartDirect ==
    /\ thr[1].status = "new"
    /\ StartResearch(1)
    /\ thr'[1].graph = build_research_graph(FALSE, FALSE)
    /\ thr'[1].input.human_analyst_feedback = Approve

\* thread 2, once thread 1 has ended: the same request on a graph with the gate
\* interrupt, whatever feedback it starts with
StartGated ==
    /\ thr[1].status = "done"
    /\ thr[2].status = "new"
    /\ StartResearch(2)
    /\ thr'[2].graph = build_research_graph(TRUE, FALSE)
    /\ thr'[2].input.max_analysts = thr[1].input.max_analysts
    /\ thr'[2].max_interview_turns = thr[1].max_interview_turns

\* continue_research(graph, 2, "approve") on the paused thread
ResumeApproved ==
    /\ thr[2].status = "paused"
    /\ ContinueResearch(2)
    /\ thr'[2].values.human_analyst_feedback = Approve

PairNext ==
    \/ StartDirect /\ UNCHANGED uvars
    \/ StartGated /\ UNCHANGED uvars
    \/ ResumeApproved /\ UNCHANGED uvars
    \/ \E t \in Tids : RunNode(t) /\ UNCHANGED uvars

PairSpec == PairInit /\ [][PairNext]_vars

\* ------------------------------------------------- merge_state_updates alone
MergeKeys == {"context", "sections", "topic"}

MergeScalars == {"a", "b"}

MergeLists == UNION {[1..n -> MergeScalars] : n \in 0..MaxListLen}

PyValues == {PyList(l) : l \in MergeLists} \cup {PyScalar(x) : x \in MergeScalars}

\* states whose additive fields, when present, hold lists
MergeStates ==
    UNION { {d \in [K -> PyValues] :
                \A key \in K \cap additive_fields : d[key].list} :
            K \in SUBSET MergeKeys }

\* a key that no state schema declares
UnknownKey == "notes"

\* updates of any of the fields, with or without the undeclared key
MergeUpdates ==
    LET known == UNION {[K -> PyValues] : K \in SUBSET MergeKeys}
    IN  known \cup {(UnknownKey :> PyScalar("a")) @@ u : u \in known}

MergeInit ==
    /\ env = PairEnv
    /\ iv = <<>>
    /\ thr = [t \in Tids |-> NewThread]
    /\ memo = NoMemo
    /\ tids = {}
    /\ app = NoApp
    /\ rt = NoRetry
    /\ cb = NoBreaker
    /\ stool = NoTool
    /\ \E current_state \in MergeStates, updates \in MergeUpdates :
          call = [phase |-> "called", fn |-> "merge_state_updates",
                  given |-> current_state, current_state |-> current_state,
                  updates |-> updates, out |-> <<>>, new_state |-> NoDict]

\* the call returns new_state, or raises
MergeStateUpdates ==
    /\ call.phase = "called"
    /\ call.fn = "merge_state_updates"
    /\ call' = IF merge_state_updates_raises(call.current_state, call.updates)
               THEN [call EXCEPT !.phase = "raised"]
               ELSE LET r == merge_state_updates_call(call.current_state, call.updates)
                    IN  [call EXCEPT
                            !.phase = "returned",
                            !.current_state = r.heap[1],
                            !.new_state = r.heap[r.ref]]
    /\ UNCHANGED <<gvars, app, xvars>>

\* the caller merges the update once more into the state it got back
MergeFurther ==
    /\ call.phase = "returned"
    /\ call.fn = "merge_state_updates"
    /\ \A key \in DOMAIN call.new_state : Len(call.new_state[key].items) <= MaxListLen
    /\ call' = [call EXCEPT !.phase = "called", !.given = call.new_state,
                            !.current_state = call.new_state,
                            !.new_state = NoDict]
    /\ UNCHANGED <<gvars, app, xvars>>

MergeNext == MergeStateUpdates \/ MergeFurther

MergeSpec == MergeInit /\ [][MergeNext]_vars

\* ------------------------------------------------- the interview graph alone
\* interview_graph.invoke(initial_state), as the tests and examples call it
InitialMessages ==
    { <<>>,
      <<HumanMessage(OpeningText(Topic))>>,
      <<HumanMessage(ThanksText)>>,
      <<HumanMessage(OpeningText(Topic)), AIMessage(AnswerText, "expert")>> }

InterviewInputs ==
    { [analyst |-> 1, messages |-> msgs, max_num_turns |-> T, context |-> <<>>,
       interview |-> <<>>, sections |-> <<>>] :
         msgs \in InitialMessages, T \in 0..MaxTurns }
    \cup { [analyst |-> 1, messages |-> msgs] : msgs \in InitialMessages }
    \cup { [messages |-> <<HumanMessage(OpeningText(Topic))>>] }

FullEnv ==
    [questions |-> QuestionOutputs, searches |-> SearchOutcomes, deterministic |-> FALSE]

InterviewInit ==
    /\ env = FullEnv
    /\ \E input \in InterviewInputs : iv = <<NewInterview(input)>>
    /\ thr = [t \in Tids |-> NewThread]
    /\ memo = NoMemo
    /\ tids = {}
    /\ call = NoCall
    /\ app = NoApp
    /\ rt = NoRetry
    /\ cb = NoBreaker
    /\ stool = NoTool

InterviewNext == InterviewStep(1) /\ UNCHANGED <<rvars, uvars>>

InterviewSpec == InterviewInit /\ [][InterviewNext]_vars

\* the engine runs a pending node of an invoked graph to its end
FairInterviewSpec == InterviewSpec /\ WF_vars(InterviewNext)

\* interviews whose search collaborators behave the same way in every cycle
SearchEnvs ==
    { [questions |-> QuestionOutputs, searches |-> {o}, deterministic |-> FALSE] :
        o \in SearchOutcomes }

SearchInit ==
    /\ env \in SearchEnvs
    /\ \E input \in InterviewInputs : iv = <<NewInterview(input)>>
    /\ thr = [t \in Tids |-> NewThread]
    /\ memo = NoMemo
    /\ tids = {}
    /\ call = NoCall
    /\ app = NoApp
    /\ rt = NoRetry
    /\ cb = NoBreaker
    /\ stool = NoTool

SearchSpec == SearchInit /\ [][InterviewNext]_vars

FairSearchSpec == SearchSpec /\ WF_vars(InterviewNext)

\* ------------------------------------------------- the node executors alone
\* states of the research graph: none, initial, and with the interviews and
\* the writers done
ResearchStates ==
    {NoState}
    \cup {initial_state(n, fb) : n \in 1..MaxAnalysts, fb \in Feedbacks}
    \cup {[initial_state(1, Approve) EXCEPT
                !.analysts = <<1>>,
                !.sections = <<[analyst |-> 1, docs |-> 2]>>,
                !.introduction = i, !.content = c, !.conclusion = k] :
            i \in IntroOutputs, c \in ContentOutputs, k \in ConclusionOutputs}

InterviewStates == {NewInterview(input).st : input \in InterviewInputs}

ExecutorStates(fn) ==
    IF fn \in {"create_analysts", "human_feedback", "write_report", "finalize_report"}
    THEN ResearchStates ELSE InterviewStates

\* what the LLM of the executor may return
ExecutorOutputs(fn) ==
    CASE fn = "create_analysts" -> GenOutputs
      [] fn = "generate_question" -> QuestionOutputs
      [] fn = "write_report" -> ContentOutputs
      [] OTHER -> {<<>>}

Executors ==
    {"create_analysts", "human_feedback", "generate_question", "generate_answer",
     "save_interview", "write_section", "write_report", "finalize_report"}

\* the executor's result for the state and the LLM output: ok is FALSE when
\* it raises
executor(fn, state, out) ==
    LET needs_analyst(update) ==
            IF HasAnalyst(state) THEN [ok |-> TRUE, update |-> update]
            ELSE [ok |-> FALSE, update |-> NoWrites]
    IN  CASE fn = "create_analysts" -> create_analysts(state, out)
          [] fn = "human_feedback" -> [ok |-> TRUE, update |-> human_feedback(state)]
          [] fn = "generate_question" -> needs_analyst(generate_question(state, out))
          [] fn = "generate_answer" -> needs_analyst(generate_answer(state))
          [] fn = "save_interview" -> [ok |-> TRUE, update |-> save_interview(state)]
          [] fn = "write_section" ->
                IF HasAnalyst(state) THEN [ok |-> TRUE, update |-> write_section(state)]
                ELSE [ok |-> FALSE, update |-> NoWrites]
          [] fn = "write_report" -> write_report(state, out)
          [] fn = "finalize_report" -> finalize_report(state)

\* an executor called on reference 1 of the heap: it reads the state with
\* state[...] and state.get(...) and returns a dictionary it builds
executor_call(fn, state, out) ==
    LET heap == <<state>>
        r == executor(fn, heap[1], out)
    IN  [ok |-> r.ok, update |-> r.update, heap |-> heap]

ExecutorInit ==
    /\ env = PairEnv
    /\ iv = <<>>
    /\ thr = [t \in Tids |-> NewThread]
    /\ memo = NoMemo
    /\ tids = {}
    /\ app = NoApp
    /\ rt = NoRetry
    /\ cb = NoBreaker
    /\ stool = NoTool
    /\ \E fn \in Executors :
          \E state \in ExecutorStates(fn), out \in ExecutorOutputs(fn) :
             call = [phase |-> "called", fn |-> fn, given |-> state,
                     current_state |-> state, updates |-> NoDict, out |-> out,
                     new_state |-> NoDict]

\* the executor returns its update, or raises (its LLM may raise as well)
ExecutorReturns ==
    /\ call.phase = "called"
    /\ call.fn \in Executors
    /\ LET r == executor_call(call.fn, call.current_state, call.out)
       IN  \/ /\ r.ok
              /\ call' = [call EXCEPT !.phase = "returned",
                                      !.current_state = r.heap[1],
                                      !.new_state = r.update]
           \/ /\ ~r.ok \/ call.fn \notin {"human_feedback", "save_interview",
                                            "finalize_report"}
              /\ call' = [call EXCEPT !.phase = "raised",
                                      !.current_state = r.heap[1]]
    /\ UNCHANGED <<gvars, app, xvars>>

CallInit == MergeInit \/ ExecutorInit

CallNext == MergeStateUpdates \/ MergeFurther \/ ExecutorReturns

CallSpec == CallInit /\ [][CallNext]_vars

\* ------------------------------------------------- the web application
\* The handlers of gradio_app.py on the graph of create_research_system:
\* interrupt before human_feedback, MemorySaver. A listener handles one event
\* at a time; the listeners run in threads of their own. The interviews, the
\* writers and finalize_report are one step, "research".
AppInit ==
    /\ env = PairEnv
    /\ iv = <<>>
    /\ thr = [t \in Tids |-> NewThread]
    /\ memo = NoMemo
    /\ tids = {}
    /\ call = NoCall
    /\ app = NoApp
    /\ rt = NoRetry
    /\ cb = NoBreaker
    /\ stool = NoTool

SetHandler(a, l, h) == [a EXCEPT !.handlers[l] = h]

\* the saver's put for the thread id by caller l
Save(a, l, id, ckpt) == [a EXCEPT !.saver[id] = [ckpt EXCEPT !.writer = l]]

\* a second of wall clock passes
AppTick ==
    /\ app.now < MaxClock
    /\ app' = [app EXCEPT !.now = @ + 1]
    /\ UNCHANGED <<gvars, call, xvars>>

\* start_research up to graph.invoke(initial_state, config): the thread id is
\* stored in APP_STATE and the input is saved as the thread's checkpoint
StartClick ==
    /\ app.handlers["start"].pc = "idle"
    /\ LET id == app.now
           input == [NoCheckpoint EXCEPT !.next = "create_analysts"]
       IN  app' = SetHandler(Save([app EXCEPT !.thread_id = id], "start", id, input),
                             "start",
                             [IdleHandler EXCEPT !.pc = "invoke", !.thread_id = id,
                                                 !.local = input])
    /\ UNCHANGED <<gvars, call, xvars>>

\* approve_analysts up to update_state: the feedback goes into the checkpoint
\* of the thread id APP_STATE holds
ApproveClick ==
    /\ app.handlers["approve"].pc = "idle"
    /\ app.thread_id # 0
    /\ \E feedback \in Feedbacks :
          LET id == app.thread_id
              feedback_text == IF feedback # <<>> THEN Strip(feedback) ELSE Approve
              sent == IF Lower(feedback_text) # Approve THEN feedback_text ELSE Approve
          IN  app' = SetHandler(
                        Save(app, "approve", id, [app.saver[id] EXCEPT !.feedback = sent]),
                        "approve",
                        [IdleHandler EXCEPT !.pc = "updated", !.thread_id = id,
                                            !.feedback = sent])
    /\ UNCHANGED <<gvars, call, xvars>>

\* approve_analysts after update_state: graph.invoke(None, config) loads the
\* thread's checkpoint; the approval first reads
\* APP_STATE["current_research"], which raises when it is None
ApproveInvoke ==
    /\ app.handlers["approve"].pc = "updated"
    /\ LET h == app.handlers["approve"]
       IN  app' = SetHandler(app, "approve",
                    IF h.feedback = Approve /\ ~app.current_research
                    THEN IdleHandler
                    ELSE [h EXCEPT !.pc = "invoke", !.local = app.saver[h.thread_id],
                                   !.resumed = TRUE])
    /\ UNCHANGED <<gvars, call, xvars>>

\* the superstep of the pending node, its checkpoint saved under the thread id
AppStep(l, next, analysts) ==
    LET h == app.handlers[l]
        local == [h.local EXCEPT !.next = next, !.analysts = analysts]
    IN  app' = SetHandler(Save(app, l, h.thread_id, local), l,
                          [h EXCEPT !.local = local, !.resumed = FALSE])

\* invoke() ends: nothing is pending, the gate interrupts, or a node raised
AppStop(l) == app' = SetHandler(app, l, [app.handlers[l] EXCEPT !.pc = "return"])

\* one step of the invoke of listener l
AppRun(l) ==
    /\ app.handlers[l].pc = "invoke"
    /\ LET h == app.handlers[l]
           node == h.local.next
       IN  \/ /\ node \in {"none", "end"}
              /\ AppStop(l)
           \/ /\ node = "human_feedback" /\ ~h.resumed
              /\ AppStop(l)
           \/ /\ node = "create_analysts"
              /\ \E out \in {<<>>, <<1>>} :
                    IF out = <<>> THEN AppStop(l)
                    ELSE AppStep(l, "human_feedback", out)
           \/ /\ node = "human_feedback" /\ h.resumed
              /\ LET route == initiate_all_interviews(
                                [topic |-> Topic,
                                 human_analyst_feedback |-> h.local.feedback,
                                 analysts |-> h.local.analysts])
                 IN  CASE route.kind = "node" -> AppStep(l, route.target, h.local.analysts)
                       [] route.kind = "sends" -> AppStep(l, "research", h.local.analysts)
                       [] route.kind = "raise" -> AppStop(l)
           \/ /\ node = "research"
              /\ AppStep(l, "end", h.local.analysts) \/ AppStop(l)
    /\ UNCHANGED <<gvars, call, xvars>>

\* the handler's end: start_research reads the analysts with get_state and
\* keeps them in APP_STATE["current_research"] when there are some
AppReturn(l) ==
    /\ app.handlers[l].pc = "return"
    /\ LET h == app.handlers[l]
           done == SetHandler(app, l, IdleHandler)
       IN  app' = IF l = "start" /\ app.saver[h.thread_id].analysts # <<>>
                  THEN [done EXCEPT !.current_research = TRUE]
                  ELSE done
    /\ UNCHANGED <<gvars, call, xvars>>

AppNext ==
    \/ AppTick
    \/ StartClick
    \/ ApproveClick
    \/ ApproveInvoke
    \/ \E l \in Listeners : AppRun(l)
    \/ \E l \in Listeners : AppReturn(l)

AppSpec == AppInit /\ [][AppNext]_vars

\* ================================================================== claims

TurnLimit(i) == StateGet(iv[i].st, "max_num_turns", DefaultMaxTurns)

C1_CycleBound ==
    \A i \in DOMAIN iv :
        /\ iv[i].cycles <= TurnLimit(i) + 1
        /\ iv[i].pc = "done" => "interview" \in DOMAIN iv[i].st

\* C1: an interview started with max_num_turns = T never completes more than
\* T+1 AskQuestion/AnswerQuestion cycles and, unless a node raises, reaches
\* Done (the end of WriteSection), whatever the generators produce.
C1_Termination ==
    /\ []C1_CycleBound
    /\ <>(\A i \in DOMAIN iv : iv[i].pc \in {"done", "failed"})

\* an interview with T = 0 that ran its T+1 = 1 cycle and reached Done
C1_Witness ==
    /\ tids = {}
    /\ iv[1].pc = "done"
    /\ TurnLimit(1) = 0
    /\ iv[1].cycles = 1

\* ---------------------------------------------------------------- the gate
\* the feedback as the router compares it
Normalised(state) ==
    Strip(Lower(StateGet(state, "human_analyst_feedback", DefaultFeedback)))

GatePending(t) == "human_feedback" \in thr[t].next

Gated(t) == thr[t].graph.interrupt_before # {}

\* sends is one branch spec per analyst of the state, in the list's order, each
\* targeting conduct_interview and seeded with that analyst and one message
SendsMatchAnalysts(state, sends) ==
    /\ Len(sends) = Len(state.analysts)
    /\ \A i \in 1..Len(sends) :
        /\ sends[i].node = "conduct_interview"
        /\ sends[i].arg.analyst = state.analysts[i]
        /\ Len(sends[i].arg.messages) = 1
        /\ sends[i].arg.messages[1].type = "human"

\* C2: evaluated on a state whose feedback is "approve" up to case and
\* surrounding whitespace and whose analyst list has N >= 1 entries, the gate
\* router returns exactly N Sends to conduct_interview, the i-th carrying the
\* i-th analyst and exactly one opening message; and the fan-out the engine
\* starts from them has one interview per analyst, in the same order.
C2_FanOut ==
    \A t \in Tids :
        /\ ( /\ GatePending(t)
             /\ Normalised(thr[t].values) = Approve
             /\ thr[t].values.analysts # <<>> )
           => LET route == initiate_all_interviews(thr[t].values)
              IN  /\ route.kind = "sends"
                  /\ SendsMatchAnalysts(thr[t].values, route.sends)
        /\ "conduct_interview" \in thr[t].next
           => /\ thr[t].values.analysts # <<>>
              /\ SendsMatchAnalysts(thr[t].values, thr[t].sends)
              /\ Running(t) =>
                    /\ Len(iv) = Len(thr[t].values.analysts)
                    /\ \A i \in DOMAIN iv :
                          iv[i].st.analyst = thr[t].values.analysts[i]

\* two interviews spawned on the feedback " APPROVE\n"
C2_Witness ==
    /\ Running(1)
    /\ thr[1].next = {"conduct_interview"}
    /\ Len(thr[1].sends) = 2
    /\ Len(iv) = 2
    /\ thr[1].values.human_analyst_feedback # Approve

C4_RouterSendsBack ==
    \A t \in Tids :
        (GatePending(t) /\ Normalised(thr[t].values) # Approve)
        => /\ initiate_all_interviews(thr[t].values)
                = [kind |-> "node", target |-> "create_analysts", sends |-> <<>>]
           /\ thr[t].values.sections = <<>>

C4_GateStep ==
    \A t \in Tids :
        (Running(t) /\ GatePending(t) /\ Normalised(thr[t].values) # Approve)
        => /\ thr'[t].next = {"create_analysts"}
           /\ thr'[t].sends = <<>>
           /\ iv' = <<>>
           /\ thr'[t].values.sections = <<>>

BothDone == thr[1].status = "done" /\ thr[2].status = "done"

Components(state) ==
    { StateGet(state, "introduction", <<>>), StateGet(state, "content", <<>>),
      StateGet(state, "conclusion", <<>>) }

\* C6: with introduction, content or conclusion empty finalize_report raises
\* and returns no final_report, so the state's final_report stays empty; with
\* all three non-empty it does not raise, whatever they contain, and a run
\* ends only with a final_report written from three non-empty components.
C6_Finalize ==
    \A t \in Tids :
        /\ "finalize_report" \in thr[t].next
           => LET r == finalize_report(thr[t].values)
              IN  /\ r.ok <=> <<>> \notin Components(thr[t].values)
                  /\ r.ok <=> "final_report" \in DOMAIN r.update
                  /\ thr[t].values.final_report = <<>>
        /\ thr[t].status = "done"
           => /\ <<>> \notin Components(thr[t].values)
              /\ thr[t].values.final_report # <<>>

\* finalize_report raised on an empty conclusion: the run failed, the saved
\* state still has finalize_report pending and no final_report
C6_Witness ==
    /\ thr[1].status = "failed"
    /\ thr[1].next = {"finalize_report"}
    /\ thr[1].values.conclusion = <<>>
    /\ thr[1].values.introduction # <<>>
    /\ thr[1].values.content # <<>>
    /\ thr[1].values.final_report = <<>>

\* ------------------------------------------------------- pause and resume
C7_Paused ==
    \A t \in Tids :
        (Gated(t) /\ thr[t].status = "paused")
        => /\ thr[t].next = {"human_feedback"}
           /\ thr[t].ckpt = <<Checkpoint(thr[t].values, {"human_feedback"}, <<>>)>>
           /\ thr[t].values.analysts # <<>>
           /\ thr[t].sends = <<>>
           /\ iv = <<>>

C7_FirstInvoke ==
    \A t \in Tids :
        /\ (thr[t].status = "new" /\ thr'[t].status # "new" /\ Gated(t)')
           => thr'[t].status = "running" /\ thr'[t].next = {"create_analysts"}
        /\ (Gated(t) /\ Running(t) /\ "create_analysts" \in thr[t].next)
           => \/ thr'[t].status = "failed"
              \/ thr'[t].status = "paused" /\ thr'[t].next = {"human_feedback"}

\* C7: on a graph built with interrupts, the invoke of a new thread runs
\* create_analysts and stops: the thread is paused, its checkpoint holds the
\* values with the analysts and human_feedback as the pending node, the router
\* has produced no Send and no interview exists.
C7_StopsBeforeGate == []C7_Paused /\ [][C7_FirstInvoke]_vars

\* a thread paused before the gate with two analysts to review
C7_Witness ==
    /\ Gated(1)
    /\ thr[1].status = "paused"
    /\ thr[1].values = [thr[1].input EXCEPT !.analysts = thr[1].values.analysts]
    /\ Len(thr[1].values.analysts) = 2

C8_Resume ==
    \A t \in Tids :
        Gated(t) =>
            /\ (thr[t].status = "paused" /\ thr'[t].status # "paused")
               => /\ thr'[t].status = "running"
                  /\ thr'[t].next = {"human_feedback"}
                  /\ thr'[t].values = thr'[t].ckpt[1].values
                  /\ iv' = <<>>
            /\ (Running(t) /\ GatePending(t) /\ Normalised(thr[t].values) # Approve)
               => /\ thr'[t].status = "running"
                  /\ thr'[t].next = {"create_analysts"}
                  /\ iv' = <<>>
            /\ (Running(t) /\ "create_analysts" \in thr[t].next
                    /\ thr'[t].status # "failed")
               => thr'[t].status = "paused" /\ thr'[t].next = {"human_feedback"}
            /\ (thr[t].status # "new" /\ iv = <<>> /\ iv' # <<>>)
               => /\ Normalised(thr'[t].values) = Approve
                  /\ \/ Running(t) /\ GatePending(t)
                     \/ thr[t].status = "failed"

\* C8: re-invoking a thread paused at the gate runs the gate on the saved,
\* patched values; on a feedback other than approve the gate hands over to
\* create_analysts, which runs once and leaves the thread paused before the
\* gate again, each time; interviews come into being only at a gate run by a
\* resume on an approving feedback (or when such a fan-out is re-run).
C8_RegenerateLoop == [][C8_Resume]_vars

\* paused again, with new analysts, after a resume on the feedback "no"
C8_Witness ==
    /\ Gated(1)
    /\ thr[1].status = "paused"
    /\ thr[1].input.human_analyst_feedback = Approve
    /\ thr[1].values.human_analyst_feedback = <<"n", "o">>
    /\ thr[1].values.analysts # <<>>

C9_Patch ==
    \A t \in Tids :
        (thr[t].status = "paused" /\ thr'[t].status # "paused")
        => LET old == thr[t].ckpt[1]
               new == thr'[t].ckpt[1]
           IN  /\ new.next = old.next
               /\ new.sends = old.sends
               /\ DOMAIN new.values = DOMAIN old.values
               /\ \A k \in DOMAIN old.values \ {"human_analyst_feedback"} :
                     new.values[k] = old.values[k]

\* C9: the update_state call of continue_research on a paused thread leaves
\* the checkpoint's pending node and every field of its values other than
\* human_analyst_feedback as they were.
C9_FeedbackOnly == [][C9_Patch]_vars

\* a resumed thread whose saved feedback is no longer the one it started with
C9_Witness ==
    /\ Running(1)
    /\ GatePending(1)
    /\ thr[1].ckpt # <<>>
    /\ thr[1].ckpt[1].values.human_analyst_feedback
            # thr[1].input.human_analyst_feedback
    /\ thr[1].ckpt[1].values.analysts # <<>>

\* --------------------------------------------------------------- failures
\* C10 as stated: once a node has raised, the thread has a saved checkpoint,
\* the one of the last completed step, with the failed node pending.
C10_AsStated ==
    \A t \in Tids :
        thr[t].status = "failed"
        => /\ thr[t].ckpt # <<>>
           /\ thr[t].ckpt[1].next # {}
           /\ thr[t].values = thr[t].ckpt[1].values
           /\ thr[t].next = thr[t].ckpt[1].next

\* ----------------------------------------------------- a branch that raises
FanOutRunning(t) == Running(t) /\ "conduct_interview" \in thr[t].next

BranchRaised == \E i \in DOMAIN iv : iv[i].pc = "failed"

NoSections(values) == StateGet(values, "sections", <<>>) = <<>>

C11_Step ==
    \A t \in Tids :
        (FanOutRunning(t) /\ BranchRaised)
        => /\ thr'[t].next \cap (Writers \cup {"finalize_report"}) = {}
           /\ NoSections(thr'[t].values)
           /\ thr'[t].status \in {"running", "failed"}
           /\ thr'[t].status = "failed" => iv' = <<>>

C11_Failed ==
    \A t \in Tids :
        (thr[t].status = "failed" /\ "conduct_interview" \in thr[t].next)
        => NoSections(thr[t].values) /\ NoSections(thr[t].ckpt[1].values)

\* C11: once an interview of a fan-out has raised, the run never gets to the
\* writers or to finalize_report and merges no section: the only way out of
\* the fan-out is the failure of the invoke, which leaves the values, and the
\* saved checkpoint if there is one, without any section, also the sections of
\* the interviews that had completed.
C11_FanOutFails == []C11_Failed /\ [][C11_Step]_vars

\* a failed fan-out of which one interview had completed its section
C11_Witness ==
    /\ thr[1].status = "failed"
    /\ thr[1].next = {"conduct_interview"}
    /\ thr[1].completed # <<>>
    /\ NoSections(thr[1].values)

\* ------------------------------------------------------- search outcomes
Outage == env.searches = {"raise"}

C12_EmptyUpdate ==
    Outage =>
        \A i \in DOMAIN iv :
            /\ iv[i].st.context = <<>>
            /\ \A n \in DOMAIN iv[i].writes : iv[i].writes[n] = [context |-> <<>>]

C12_SearchStep ==
    \A i \in DOMAIN iv :
        iv[i].pc = "search" => iv'[i].pc \in {"search", "answer_question"}

\* C12: when query generation or the search raises in search_web and in
\* search_wikipedia, neither node raises: each returns the update
\* {"context": []}, the context stays as it was, answer_question is the next
\* node, and the interview goes on to Done unless an LLM node raises.
C12_SearchOutage ==
    /\ []C12_EmptyUpdate
    /\ [][C12_SearchStep]_vars
    /\ (Outage /\ iv[1].pc = "search") ~> (iv[1].pc = "answer_question")
    /\ (Outage /\ iv[1].pc = "answer_question") ~> (iv[1].pc \in {"done", "failed"})

\* an interview that ended with two answers although every search raised
C12_Witness ==
    /\ Outage
    /\ iv[1].pc = "done"
    /\ iv[1].cycles = 2
    /\ iv[1].st.context = <<>>
    /\ iv[1].st.sections # <<>>

NoResults == env.searches = {"empty"}

\* C13 as stated: when both searches return an empty result list in every
\* cycle, the context of the interview stays empty: no entry is appended.
C13_AsStated ==
    NoResults => \A i \in DOMAIN iv : iv[i].st.context = <<>>

\* ------------------------------------------------------------ the router
NonExpert(messages) == {j \in 1..Len(messages) : ~IsExpert(messages[j])}

\* the most recent message that is not the expert's contains a conclusion phrase
LastNonExpertConcludes(messages) ==
    /\ NonExpert(messages) # {}
    /\ LET j == CHOOSE k \in NonExpert(messages) : \A l \in NonExpert(messages) : l <= k
       IN  \E phrase \in conclusion_phrases :
              Contains(phrase, Lower(messages[j].content))

RouteAsStated(state) ==
    LET messages == StateGet(state, "messages", <<>>)
    IN  IF \/ num_responses(messages) >= StateGet(state, "max_num_turns", DefaultMaxTurns)
           \/ LastNonExpertConcludes(messages)
        THEN "save_interview"
        ELSE "ask_question"

\* C14 as stated: the node the router sends the interview to after an answer
\* is save_interview when the expert-tagged messages number max_num_turns or
\* more or the most recent non-expert message contains a conclusion phrase
\* (case-insensitive), and ask_question otherwise.
C14_AsStated ==
    \A i \in DOMAIN iv :
        (iv[i].cycles >= 1 /\ iv[i].pc \in {"ask_question", "save_interview"})
        => iv[i].pc = RouteAsStated(iv[i].st)

\* C15 as stated: in a run started by run_research with max_interview_turns = K
\* no interview of the fan-out completes more than K
\* AskQuestion/AnswerQuestion cycles.
C15_AsStated ==
    \A t \in Tids :
        FanOutRunning(t)
        => \A i \in DOMAIN iv : iv[i].cycles <= thr[t].max_interview_turns

\* --------------------------------------------------------------- sections
Joined(t) ==
    thr[t].next \cap (Writers \cup {"finalize_report"}) # {} \/ thr[t].status = "done"

BeforeJoin(t) ==
    /\ thr[t].next # {}
    /\ thr[t].next \subseteq {"create_analysts", "human_feedback", "conduct_interview"}

C17_WritersPending ==
    \A t \in Tids :
        thr[t].next \cap Writers # {}
        => /\ thr[t].next = Writers
           /\ Len(thr[t].values.sections) = Len(thr[t].values.analysts)
           /\ thr[t].values.sections # <<>>
           /\ Running(t) => iv = <<>>

C17_Step ==
    \A t \in Tids :
        /\ ("finalize_report" \in thr'[t].next /\ "finalize_report" \notin thr[t].next)
           => /\ Running(t)
              /\ thr[t].next = Writers
              /\ Cardinality(DOMAIN thr[t].writes) = 2
              /\ thr'[t].next = {"finalize_report"}
              /\ thr'[t].values.sections = thr[t].values.sections
        /\ (Running(t) /\ thr[t].next \cap Writers # {})
           => /\ DOMAIN thr[t].writes \subseteq Writers
              /\ \/ thr'[t].status = "failed"
                 \/ thr'[t].next = {"finalize_report"}
                 \/ /\ thr'[t].next = Writers
                    /\ thr'[t].values = thr[t].values
                    /\ Cardinality(DOMAIN thr'[t].writes)
                            = Cardinality(DOMAIN thr[t].writes) + 1
        /\ (Running(t) /\ "finalize_report" \in thr[t].next)
           => \/ thr'[t].status = "failed"
              \/ thr'[t].status = "done" /\ thr'[t].next = {}

\* C17: finalize_report becomes pending only when the last of write_report,
\* write_introduction and write_conclusion completes, each having run once in
\* that superstep; it runs once and the run ends; while the writers are
\* pending the values they read hold the sections of all the interviews.
C17_WritersThenFinalize == []C17_WritersPending /\ [][C17_Step]_vars

\* finalize_report pending with the three components written
C17_Witness ==
    /\ Running(1)
    /\ thr[1].next = {"finalize_report"}
    /\ <<>> \notin Components(thr[1].values)
    /\ Len(thr[1].values.sections) = 2

\* ------------------------------------------------- the search fan-in
Hits == env.searches = {"hit"}

Count(seq, d) == Cardinality({j \in DOMAIN seq : seq[j] = d})

C18_AnswerReads ==
    \A i \in DOMAIN iv :
        iv[i].pc = "answer_question"
        => /\ iv[i].writes = NoWrites
           /\ Hits => /\ Count(iv[i].st.context, Doc("web")) = iv[i].cycles + 1
                      /\ Count(iv[i].st.context, Doc("wiki")) = iv[i].cycles + 1
                      /\ Len(iv[i].st.context) = 2 * (iv[i].cycles + 1)

C18_Step ==
    \A i \in DOMAIN iv :
        /\ (iv'[i].pc = "answer_question" /\ iv[i].pc # "answer_question")
           => /\ iv[i].pc = "search"
              /\ Cardinality(DOMAIN iv[i].writes) = 1
              /\ iv'[i].cycles = iv[i].cycles
        /\ (iv[i].pc = "answer_question" /\ iv'[i] # iv[i])
           => /\ iv'[i].pc \in {"ask_question", "save_interview", "failed"}
              /\ iv'[i].pc # "failed" => iv'[i].cycles = iv[i].cycles + 1
        /\ (iv'[i].pc = "search" /\ iv[i].pc # "search")
           => iv[i].pc = "ask_question" /\ iv'[i].writes = NoWrites
        /\ iv[i].pc # "answer_question" => iv'[i].cycles = iv[i].cycles

\* C18: in each cycle answer_question becomes the next node only when the
\* second of search_web and search_wikipedia completes, and runs once before
\* the next question or the save; with both searches returning a document the
\* context it reads holds one document of each search for the current and for
\* every earlier cycle.
C18_AnswerAfterBothSearches == []C18_AnswerReads /\ [][C18_Step]_vars

\* the answer of the second cycle about to be generated from four documents
C18_Witness ==
    /\ Hits
    /\ iv[1].pc = "answer_question"
    /\ iv[1].cycles = 1
    /\ iv[1].st.context = <<Doc("web"), Doc("wiki"), Doc("web"), Doc("wiki")>>

\* ------------------------------------------------- analyst generation
Truncated(out, n) == SubSeq(out, 1, IF Len(out) > n THEN n ELSE Len(out))

CreatePending(t) == Running(t) /\ "create_analysts" \in thr[t].next

C19_Result ==
    \A t \in Tids :
        CreatePending(t)
        => \A out \in GenOutputs :
              LET r == create_analysts(thr[t].values, out)
              IN  IF out = <<>>
                  THEN ~r.ok /\ r.update = NoWrites
                  ELSE /\ r.ok
                       /\ r.update.analysts = Truncated(out, thr[t].values.max_analysts)

C19_Step ==
    \A t \in Tids :
        (CreatePending(t) /\ thr'[t] # thr[t])
        => \/ /\ thr'[t].status = "failed"
              /\ IF thr[t].ckpt # <<>>
                 THEN thr'[t].values.analysts = thr[t].values.analysts
                 ELSE thr'[t].values = NoState
           \/ /\ thr'[t].status \in {"running", "paused"}
              /\ thr'[t].next = {"human_feedback"}
              /\ LET n == thr[t].values.max_analysts
                     analysts == thr'[t].values.analysts
                 IN  /\ Len(analysts) >= 1
                     /\ Len(analysts) <= n
                     /\ \E out \in GenOutputs : out # <<>> /\ analysts = Truncated(out, n)

\* C19: a create_analysts step that succeeds leaves between 1 and
\* max_analysts personas in analysts, the first max_analysts of a longer LLM
\* output; an output with no persona makes the node raise, and analysts is
\* then what it was before the step.
C19_AnalystCount == []C19_Result /\ [][C19_Step]_vars

\* three personas generated for max_analysts = 2, the first two kept
C19_Witness ==
    /\ thr[1].next = {"human_feedback"}
    /\ thr[1].values.max_analysts = MaxAnalysts
    /\ Len(thr[1].values.analysts) = MaxAnalysts
    /\ thr[1].values.analysts \notin GenOutputs
    /\ \E out \in GenOutputs :
          Len(out) > MaxAnalysts /\ thr[1].values.analysts = Truncated(out, MaxAnalysts)

\* ------------------------------------------------- the merge of an update
OldList(key) ==
    IF key \in DOMAIN call.current_state THEN call.current_state[key].items ELSE <<>>

Replaced(key) == call.new_state[key] = call.updates[key]

\* when the state holds the additive field the update is appended to it; the
\* other fields are replaced and the fields not updated are kept
C20_WhenHeld ==
    call.phase = "returned"
    => /\ DOMAIN call.new_state = DOMAIN call.current_state \cup DOMAIN call.updates
       /\ \A key \in DOMAIN call.new_state :
            IF key \notin DOMAIN call.updates
            THEN call.new_state[key] = call.current_state[key]
            ELSE IF key \in additive_fields /\ key \in DOMAIN call.current_state
                 THEN call.new_state[key]
                        = PyList(call.current_state[key].items \o call.updates[key].items)
                 ELSE Replaced(key)

\* C20: for every state and update, after the merge an updated context or
\* sections holds the old list followed by the update's value, a scalar value
\* as a one-element list, and every other updated field holds the update's
\* value.
C20_AsStated ==
    call.phase = "returned"
    => \A key \in DOMAIN call.updates :
          IF key \in additive_fields
          THEN call.new_state[key] = PyList(OldList(key) \o call.updates[key].items)
          ELSE Replaced(key)

\* C21: an update that names a field no state declares leaves the state
\* without that field: the write is dropped and nothing is raised.
C21_AsStated ==
    (call.phase = "returned" /\ UnknownKey \notin DOMAIN call.current_state)
    => UnknownKey \notin DOMAIN call.new_state

\* ------------------------------------------------- the state an executor is given
Returned == call.phase \in {"returned", "raised"}

Executing(l, id) == app.handlers[l].pc = "invoke" /\ app.handlers[l].thread_id = id

\* C23: for every thread id at most one invoke is in progress, and while one
\* is in progress the thread's checkpoint is written by that invoke only.
C23_AsStated ==
    \A id \in ThreadIds :
        /\ Cardinality({l \in Listeners : Executing(l, id)}) <= 1
        /\ \A l \in Listeners : Executing(l, id) => app.saver[id].writer = l

\* ------------------------------------------------- threads without a checkpoint
Unsaved == call.fn \in {"continue_research", "get_research_state"} /\ ~call.given

\* continue_research on a thread id without a checkpoint ends with an error
C24_ResumeFails == (Unsaved /\ call.fn = "continue_research") => call.phase = "raised"

\* C24: continue_research and get_research_state on a thread id for which no
\* checkpoint was saved end with an error.
C24_AsStated == Unsaved => call.phase = "raised"

\* ------------------------------------------------- the routers' targets
GateTargets(route) ==
    CASE route.kind = "node" -> {route.target}
      [] route.kind = "sends" -> {route.sends[k].node : k \in DOMAIN route.sends}
      [] OTHER -> {}

C25_Returned ==
    /\ \A i \in DOMAIN iv : route_messages(iv[i].st) \in route_messages_targets
    /\ \A t \in Tids :
        /\ GateTargets(initiate_all_interviews(thr[t].values))
                \subseteq initiate_all_interviews_targets
        /\ \A k \in DOMAIN thr[t].sends : thr[t].sends[k].node = "conduct_interview"

C25_Step ==
    /\ \A i \in DOMAIN iv \cap DOMAIN iv' :
          (iv[i].pc = "answer_question" /\ iv'[i].pc \notin {"answer_question", "failed"})
          => iv'[i].pc \in route_messages_targets
    /\ \A t \in Tids :
          (Running(t) /\ "human_feedback" \in thr[t].next /\ thr'[t].status = "running")
          => thr'[t].next \subseteq initiate_all_interviews_targets

\* C25: in every reachable state of the two graphs route_messages returns
\* ask_question or save_interview and initiate_all_interviews returns
\* create_analysts or Sends that all target conduct_interview, the targets
\* declared with the conditional edges, and the node that runs next is one of
\* them.
C25_RouterTargets == []C25_Returned /\ [][C25_Step]_vars

\* both routers have returned: two interviews were sent and one of them was
\* sent back to ask_question
C25_Witness ==
    /\ Len(thr[1].sends) = 2
    /\ "conduct_interview" \in thr[1].next
    /\ \E i \in DOMAIN iv : iv[i].pc = "ask_question" /\ iv[i].cycles = 1
    /\ \E i \in DOMAIN iv : iv[i].pc = "save_interview"

\* ------------------------------------------------- expert messages and turns
\* C26: in every interview state the number of expert-tagged messages equals
\* the number of completed answer_question executions (every cycle appends a
\* question that is not expert-tagged and then one expert-tagged answer).
C26_AsStated ==
    \A i \in DOMAIN iv :
        num_responses(StateGet(iv[i].st, "messages", <<>>)) = iv[i].cycles

\* ------------------------------------------------- the final report's parts
Finalized(t) == thr[t].status = "done"

\* the report ends with a "## Sources" block placed after the conclusion
SourcesAfterConclusion(report, conclusion) ==
    Contains(Strip(conclusion) \o NL \o NL \o NL \o NL \o SourcesHeader, report)

\* the report up to the content: introduction and the first separator
ReportHead(introduction) == Strip(introduction) \o NL \o NL \o Rule \o NL \o NL

\* the content after the removal of a leading "## Insights"
Cleaned(content) ==
    IF StartsWith(content, InsightsHeader)
    THEN Strip(SubSeq(content, Len(InsightsHeader) + 1, Len(content)))
    ELSE content

\* the text that follows the first line "## Sources" of the cleaned content
\* (empty when there is no such line)
SourcesText(content) ==
    LET c == Cleaned(content)
        at == Find(SourcesSeparator, c)
    IN  IF at > 0 THEN SubSeq(c, at + Len(SourcesSeparator), Len(c)) ELSE <<>>

BodyText(content) ==
    LET c == Cleaned(content)
        at == Find(SourcesSeparator, c)
    IN  IF at > 0 THEN SubSeq(c, 1, at - 1) ELSE c

Results == {"v1", "v2"}
ListedErrors == {"E1", "E2"}
UnlistedErrors == {"U"}
FuncOutcomes == Results \cup ListedErrors \cup UnlistedErrors

\* utils/retry.py has the on_retry callback, tools/search.py has not
RetryImpls == {"utils", "search"}
Callbacks(impl) == IF impl = "utils" THEN {"none", "returns", "raises"} ELSE {"none"}

\* the wrapper entered: attempt is the next value of range(max_retries + 1)
NewRetry(impl, max_retries, on_retry) ==
    [impl |-> impl, max_retries |-> max_retries, on_retry |-> on_retry,
     attempt |-> 0, last_exception |-> "None", outs |-> <<>>, pc |-> "loop",
     result |-> "None"]

\* a wrapper whose except clause catches every exception
wrapper_attempt_catchall(r, outcome) ==
    LET r1 == [r EXCEPT !.outs = Append(@, outcome)]
    IN  IF outcome \in Results
        THEN [r1 EXCEPT !.pc = "returned", !.result = outcome]
        ELSE IF r.attempt = r.max_retries
        THEN [r1 EXCEPT !.last_exception = outcome, !.pc = "raised",
                        !.result = outcome]
        ELSE [r1 EXCEPT !.last_exception = outcome, !.attempt = @ + 1]

\* one pass of the loop body: func is invoked and gives outcome; a listed
\* exception is kept, and re-raised on the last attempt; otherwise on_retry
\* is called (it may raise), the wrapper sleeps and the loop goes on
wrapper_attempt(r, outcome) ==
    LET r1 == [r EXCEPT !.outs = Append(@, outcome)]
    IN  IF outcome \in Results
        THEN [r1 EXCEPT !.pc = "returned", !.result = outcome]
        ELSE IF outcome \notin ListedErrors
        THEN [r1 EXCEPT !.pc = "raised", !.result = outcome]
        ELSE IF r.attempt = r.max_retries
        THEN [r1 EXCEPT !.last_exception = outcome, !.pc = "raised",
                        !.result = outcome]
        ELSE IF r.on_retry = "raises"
        THEN [r1 EXCEPT !.last_exception = outcome, !.pc = "raised",
                        !.result = "CallbackError"]
        ELSE [r1 EXCEPT !.last_exception = outcome, !.attempt = @ + 1]

\* `raise last_exception` after the loop: reached only with an empty range,
\* where last_exception is None and raise gives a TypeError
wrapper_after_loop(r) ==
    [r EXCEPT !.pc = "raised",
              !.result = IF r.last_exception = "None" THEN "TypeError"
                         ELSE r.last_exception]

RetryInit ==
    /\ env = PairEnv
    /\ iv = <<>>
    /\ thr = [t \in Tids |-> NewThread]
    /\ memo = NoMemo
    /\ tids = {}
    /\ call = NoCall
    /\ app = NoApp
    /\ \E impl \in RetryImpls, R \in (-1)..MaxRetries :
          \E c \in Callbacks(impl) : rt = NewRetry(impl, R, c)
    /\ cb = NoBreaker
    /\ stool = NoTool

RetryAttempt ==
    /\ rt.pc = "loop"
    /\ rt.attempt <= rt.max_retries
    /\ \E outcome \in FuncOutcomes : rt' = wrapper_attempt(rt, outcome)
    /\ UNCHANGED <<gvars, call, app, cb, stool>>

RetryAfterLoop ==
    /\ rt.pc = "loop"
    /\ rt.attempt > rt.max_retries
    /\ rt' = wrapper_after_loop(rt)
    /\ UNCHANGED <<gvars, call, app, cb, stool>>

RetryNext == RetryAttempt \/ RetryAfterLoop

RetrySpec == RetryInit /\ [][RetryNext]_vars

Invocations(r) == Len(r.outs)

AllListed(outs) == \A k \in DOMAIN outs : outs[k] \in ListedErrors

C28_Bounded ==
    LET n == Invocations(rt)
    IN  rt.pc # "none"
        => /\ n <= rt.max_retries + 1
           /\ rt.pc = "returned"
              => /\ n >= 1
                 /\ rt.outs[n] \in Results /\ rt.result = rt.outs[n]
                 /\ AllListed(SubSeq(rt.outs, 1, n - 1))
           /\ (rt.max_retries >= 0 /\ n = rt.max_retries + 1 /\ AllListed(rt.outs))
              => rt.pc = "raised" /\ rt.result = rt.outs[n]
           /\ (n >= 1 /\ rt.outs[n] \in UnlistedErrors)
              => /\ rt.pc = "raised" /\ rt.result = rt.outs[n]
                 /\ AllListed(SubSeq(rt.outs, 1, n - 1))
           /\ (n = 1 /\ rt.outs[1] \notin ListedErrors) => rt.pc # "loop"

\* once the wrapper has returned or raised, the function is not invoked again
C28_Step == rt.pc \in {"returned", "raised"} => rt' = rt

\* C28: a function wrapped by retry_with_backoff(max_retries = R) is invoked
\* at most R+1 times per call; the wrapper returns the result of the first
\* successful invocation and invokes no more, re-raises the last exception
\* when all R+1 invocations raise a listed exception, and lets an exception
\* that is not listed out at once, after a single invocation when the first
\* one raises it.
C28_Retry == []C28_Bounded /\ [][C28_Step]_vars

\* all R+1 = 3 invocations raised a listed exception and the last is re-raised
C28_Witness ==
    /\ rt.max_retries = 2
    /\ rt.outs = <<"E1", "E2", "E1">>
    /\ rt.pc = "raised"
    /\ rt.result = "E1"

\* ---------------------------------------------------------- circuit breaker
\* CircuitBreakerConfig after with_circuit_breaker(service, ...) registered it:
\* the dataclass fields (last_failure_time 0 is None), the clock, and a record
\* of the calls through the wrapper: how many, how many reached the wrapped
\* function, when and how the last one ended, the failures recorded since
\* the last recorded success, and the successes recorded in a row since the
\* circuit last turned half-open
NewBreaker(failure_threshold, success_threshold, timeout) ==
    [state |-> "closed", failure_threshold |-> failure_threshold,
     success_threshold |-> success_threshold, timeout |-> timeout,
     failure_count |-> 0, success_count |-> 0, last_failure_time |-> 0,
     now |-> 1, calls |-> 0, invoked |-> 0, at |-> 0, last |-> "none",
     streak |-> 0, wins |-> 0]

\* a record_success that keeps the failure count
record_success_keep(c) ==
    IF c.state = "half_open"
    THEN IF c.success_count + 1 >= c.success_threshold
         THEN [c EXCEPT !.state = "closed", !.success_count = 0]
         ELSE [c EXCEPT !.success_count = @ + 1]
    ELSE c

record_success(c) ==
    LET c1 == [c EXCEPT !.failure_count = 0]
    IN  IF c.state = "half_open"
        THEN IF c.success_count + 1 >= c.success_threshold
             THEN [c1 EXCEPT !.state = "closed", !.success_count = 0]
             ELSE [c1 EXCEPT !.success_count = @ + 1]
        ELSE c1

\* a record_failure that treats a half-open circuit like a closed one
record_failure_tolerant(c) ==
    LET c1 == [c EXCEPT !.failure_count = @ + 1, !.last_failure_time = c.now]
    IN  IF c1.failure_count >= c.failure_threshold
        THEN [c1 EXCEPT !.state = "open"]
        ELSE c1

record_failure(c) ==
    LET c1 == [c EXCEPT !.failure_count = @ + 1, !.last_failure_time = c.now]
    IN  IF c.state = "half_open"
        THEN [c1 EXCEPT !.state = "open", !.success_count = 0]
        ELSE IF c1.failure_count >= c.failure_threshold
        THEN [c1 EXCEPT !.state = "open"]
        ELSE c1

\* a can_attempt that lets a call through an open circuit at any time
can_attempt_impatient(c) ==
    IF c.state = "open"
    THEN [ok |-> TRUE, c |-> [c EXCEPT !.state = "half_open", !.success_count = 0]]
    ELSE [ok |-> TRUE, c |-> c]

\* can_attempt: the answer and the breaker it leaves (an open circuit turns
\* half-open once timeout seconds have passed since the last failure)
can_attempt(c) ==
    IF c.state = "open"
    THEN IF c.last_failure_time # 0 /\ c.now - c.last_failure_time >= c.timeout
         THEN [ok |-> TRUE, c |-> [c EXCEPT !.state = "half_open", !.success_count = 0]]
         ELSE [ok |-> FALSE, c |-> c]
    ELSE [ok |-> TRUE, c |-> c]

\* the wrapper of with_circuit_breaker around a function that returns
\* (raises = FALSE) or raises
breaker_wrapper(c, raises) ==
    LET a == can_attempt(c)
        c0 == [a.c EXCEPT !.calls = @ + 1, !.at = c.now,
                          !.wins = IF c.state = "open" THEN 0 ELSE @]
        probing == a.c.state = "half_open"
    IN  IF ~a.ok THEN [c0 EXCEPT !.last = "rejected"]
        ELSE IF raises
        THEN [record_failure(c0) EXCEPT !.invoked = @ + 1, !.last = "raised",
                                        !.streak = @ + 1,
                                        !.wins = IF probing THEN 0 ELSE @]
        ELSE [record_success(c0) EXCEPT !.invoked = @ + 1, !.last = "returned",
                                        !.streak = 0,
                                        !.wins = IF probing THEN @ + 1 ELSE @]

Timeouts == {1, 2}
SuccessThresholds == {1, 2}

BreakerInit ==
    /\ env = PairEnv
    /\ iv = <<>>
    /\ thr = [t \in Tids |-> NewThread]
    /\ memo = NoMemo
    /\ tids = {}
    /\ call = NoCall
    /\ app = NoApp
    /\ rt = NoRetry
    /\ \E f \in 1..MaxThreshold, k \in SuccessThresholds, w \in Timeouts :
          cb = NewBreaker(f, k, w)
    /\ stool = NoTool

BreakerCall ==
    /\ cb.state # "none"
    /\ cb.calls < MaxCalls
    /\ \E raises \in BOOLEAN : cb' = breaker_wrapper(cb, raises)
    /\ UNCHANGED <<gvars, call, app, rt, stool>>

\* a second passes
BreakerTick ==
    /\ cb.state # "none"
    /\ cb.now < MaxTime
    /\ cb' = [cb EXCEPT !.now = @ + 1]
    /\ UNCHANGED <<gvars, call, app, rt, stool>>

BreakerNext == BreakerCall \/ BreakerTick

BreakerSpec == BreakerInit /\ [][BreakerNext]_vars

Registered == cb.state # "none"

\* a closed circuit has seen fewer than failure_threshold failures since the
\* last success, and the failure count is the number of those failures
C29_Closed ==
    Registered
    => /\ cb.failure_count = cb.streak
       /\ cb.state = "closed" => cb.streak < cb.failure_threshold

C29_Step ==
    Registered
    => /\ (cb.state = "closed" /\ cb'.state = "open")
          <=> (cb.state = "closed" /\ cb'.last = "raised" /\ cb'.calls # cb.calls
               /\ cb'.streak = cb.failure_threshold)
       /\ (cb'.calls # cb.calls /\ cb'.last = "returned") => cb'.failure_count = 0

\* C29: starting from CLOSED the circuit breaker becomes OPEN exactly when
\* failure_threshold failures have been recorded with no recorded success
\* between them; a recorded success sets the failure count to zero, so fewer
\* consecutive failures never open the circuit.
C29_Breaker == []C29_Closed /\ [][C29_Step]_vars

\* four calls reached the function; the last two failed and opened a circuit
\* of threshold 2, the failures before the success between did not
C29_Witness ==
    /\ Registered
    /\ cb.failure_threshold = 2
    /\ cb.invoked = 4 /\ cb.calls = 4
    /\ cb.state = "open"
    /\ cb.failure_count = 2

BreakerFields(c) ==
    <<c.state, c.failure_count, c.success_count, c.last_failure_time, c.streak>>

C30_Step ==
    (/\ Registered
     /\ cb.state = "open"
     /\ cb.now - cb.last_failure_time < cb.timeout
     /\ cb'.calls # cb.calls)
    => /\ cb'.last = "rejected"
       /\ cb'.invoked = cb.invoked
       /\ BreakerFields(cb') = BreakerFields(cb)

\* C30: while the circuit is OPEN and less than timeout seconds have passed
\* since the last recorded failure, a call through with_circuit_breaker is
\* rejected with an exception, the wrapped function is not invoked, and
\* neither a failure nor a success is recorded: state, counts and the time
\* of the last failure stay as they are.
C30_Rejects == [][C30_Step]_vars

\* a call was rejected one second after the failure that opened a circuit
\* whose timeout is two seconds
C30_Witness ==
    /\ Registered
    /\ cb.state = "open"
    /\ cb.last = "rejected"
    /\ cb.timeout = 2
    /\ cb.at = cb.last_failure_time + 1
    /\ cb.invoked < cb.calls

\* ------------------------------------------------- half-open and recovery
Called == cb'.calls # cb.calls

TimedOut == cb.now - cb.last_failure_time >= cb.timeout

\* the circuit is half-open when the function is invoked: it was half-open
\* before the call, or open with the timeout passed
Probing == cb.state = "half_open" \/ (cb.state = "open" /\ TimedOut)

\* a half-open circuit has counted the successes since it turned half-open
\* and still lacks some of the success_threshold
C31_HalfOpen ==
    (Registered /\ cb.state = "half_open")
    => cb.success_count = cb.wins /\ cb.wins < cb.success_threshold

C31_Step ==
    (Registered /\ Called)
    => /\ (cb.state = "open" /\ TimedOut)
          => cb'.invoked = cb.invoked + 1 /\ cb'.last # "rejected"
       /\ (Probing /\ cb'.last = "raised") => cb'.state = "open"
       /\ (Probing /\ cb'.last = "returned")
          => IF cb'.wins = cb.success_threshold
             THEN /\ cb'.state = "closed"
                  /\ cb'.failure_count = 0 /\ cb'.success_count = 0
             ELSE /\ cb'.state = "half_open"
                  /\ cb'.wins < cb.success_threshold
       /\ (cb.state # "closed" /\ cb'.state = "closed")
          => Probing /\ cb'.wins = cb.success_threshold

\* C31: once timeout seconds have passed since the last recorded failure, the
\* next call on an OPEN breaker makes it HALF_OPEN and is attempted; in
\* HALF_OPEN one failure returns the breaker to OPEN, and success_threshold
\* successes with no failure between them return it to CLOSED with both
\* counters at zero.
C31_Recovery == []C31_HalfOpen /\ [][C31_Step]_vars

\* a circuit closed again by two successes in a row after it had been open
C31_Witness ==
    /\ Registered
    /\ cb.success_threshold = 2
    /\ cb.state = "closed"
    /\ cb.wins = 2
    /\ cb.failure_count = 0 /\ cb.success_count = 0
    /\ cb.last = "returned"

\* -------------------------------------------------------------- SearchCache
\* _generate_key: the search type and the query, lower-cased and stripped
\* (the digest of the two is taken to be free of collisions)
generate_key(query, search_type) == <<search_type, Strip(Lower(query))>>

\* The cache is the dict in insertion order: a sequence of entries with their
\* keys. CacheEntry.query is stored and never read; it is left out.
CacheEntry(key, results, timestamp, ttl_seconds) ==
    [key |-> key, results |-> results, timestamp |-> timestamp,
     ttl_seconds |-> ttl_seconds]

CacheKeys(cache) == {cache[i].key : i \in DOMAIN cache}

CacheIndex(cache, key) ==
    IF key \in CacheKeys(cache)
    THEN CHOOSE i \in DOMAIN cache : cache[i].key = key
    ELSE 0

\* del self._cache[key]
CacheDel(cache, key) == SelectSeq(cache, LAMBDA e : e.key # key)

\* self._cache[key] = entry: a key the dict holds keeps its place
CachePut(cache, entry) ==
    LET i == CacheIndex(cache, entry.key)
    IN  IF i = 0 THEN Append(cache, entry) ELSE [cache EXCEPT ![i] = entry]

is_expired(entry, now) == now - entry.timestamp > entry.ttl_seconds

\* an eviction of the entry with the newest timestamp
oldest_key_newest(cache) ==
    LET i == CHOOSE i \in DOMAIN cache :
                 /\ \A j \in DOMAIN cache : cache[j].timestamp <= cache[i].timestamp
                 /\ \A j \in 1..(i - 1) : cache[j].timestamp < cache[i].timestamp
    IN  cache[i].key

\* min(self._cache.keys(), key=timestamp): the first of the oldest entries
oldest_key(cache) ==
    LET i == CHOOSE i \in DOMAIN cache :
                 /\ \A j \in DOMAIN cache : cache[i].timestamp <= cache[j].timestamp
                 /\ \A j \in 1..(i - 1) : cache[i].timestamp < cache[j].timestamp
    IN  cache[i].key

\* SearchCache.get: the result (None when there is none) and the cache left
cache_get(cache, query, search_type, now) ==
    LET key == generate_key(query, search_type)
        i == CacheIndex(cache, key)
    IN  IF i = 0 THEN [results |-> "None", cache |-> cache]
        ELSE IF is_expired(cache[i], now)
        THEN [results |-> "None", cache |-> CacheDel(cache, key)]
        ELSE [results |-> cache[i].results, cache |-> cache]

\* SearchCache.set
cache_set(cache, max_size, query, search_type, results, ttl_seconds, now) ==
    LET kept == IF Len(cache) >= max_size
                THEN CacheDel(cache, oldest_key(cache))
                ELSE cache
    IN  CachePut(kept, CacheEntry(generate_key(query, search_type), results,
                                  now, ttl_seconds))

\* the queries and results of the model
Queries == { <<"a">>, <<" ","A">>, <<"b">> }
SearchTypes == {"web", "wikipedia"}
SearchResults == {"r1", "r2"}
Ttls == {1}

NoOp == [op |-> "none"]

\* a stool after __init__: an empty cache of max_size, a rate limiter of
\* max_requests per time_window with no request, the clock, the requests
\* admitted so far, the invocations of the backend and the last operation
NewTool(max_size, max_requests, time_window) ==
    [on |-> TRUE, kind |-> "web", now |-> 1, max_size |-> max_size,
     cache |-> <<>>,
     max_requests |-> max_requests, time_window |-> time_window,
     requests |-> <<>>, procs |-> <<>>, admitted |-> <<>>, invoked |-> 0,
     last |-> NoOp]

CacheInit ==
    /\ env = PairEnv
    /\ iv = <<>>
    /\ thr = [t \in Tids |-> NewThread]
    /\ memo = NoMemo
    /\ tids = {}
    /\ call = NoCall
    /\ app = NoApp
    /\ rt = NoRetry
    /\ cb = NoBreaker
    /\ \E M \in 1..MaxCacheSize : stool = NewTool(M, 1, 1)

ToolFrame == UNCHANGED <<gvars, call, app, rt, cb>>

CacheGet ==
    /\ stool.on
    /\ \E q \in Queries, ty \in SearchTypes :
          LET r == cache_get(stool.cache, q, ty, stool.now)
          IN  stool' = [stool EXCEPT !.cache = r.cache,
                          !.last = [op |-> "get", key |-> generate_key(q, ty),
                                    results |-> r.results]]
    /\ ToolFrame

CacheSet ==
    /\ stool.on
    /\ \E q \in Queries, ty \in SearchTypes, res \in SearchResults, ttl \in Ttls :
          stool' = [stool EXCEPT
                      !.cache = cache_set(stool.cache, stool.max_size, q, ty, res,
                                          ttl, stool.now),
                      !.last = [op |-> "set", key |-> generate_key(q, ty),
                                results |-> res]]
    /\ ToolFrame

CacheClear ==
    /\ stool.on
    /\ stool' = [stool EXCEPT !.cache = <<>>, !.last = [op |-> "clear"]]
    /\ ToolFrame

\* a second passes
ToolTick ==
    /\ stool.on
    /\ stool.now < MaxTime
    /\ stool' = [stool EXCEPT !.now = @ + 1, !.last = NoOp]
    /\ ToolFrame

CacheNext == CacheGet \/ CacheSet \/ CacheClear \/ ToolTick

CacheSpec == CacheInit /\ [][CacheNext]_vars

C32_AtMost == stool.on => Len(stool.cache) <= stool.max_size

Oldest(cache) ==
    {e \in CacheKeys(cache) :
        \A j \in DOMAIN cache :
            cache[CacheIndex(cache, e)].timestamp <= cache[j].timestamp}

\* a set on a full cache: one of the oldest entries has gone (unless it is the
\* key that is set), every other entry is as it was, the new entry is held
C32_Step ==
    (stool.on /\ stool'.last.op = "set" /\ Len(stool.cache) >= stool.max_size)
    => \E gone \in Oldest(stool.cache) :
          /\ CacheKeys(stool'.cache) =
                (CacheKeys(stool.cache) \ {gone}) \cup {stool'.last.key}
          /\ \A k \in CacheKeys(stool.cache) \ {gone, stool'.last.key} :
                stool'.cache[CacheIndex(stool'.cache, k)] =
                stool.cache[CacheIndex(stool.cache, k)]
          /\ LET e == stool'.cache[CacheIndex(stool'.cache, stool'.last.key)]
             IN  e.results = stool'.last.results /\ e.timestamp = stool.now

\* C32: after any sequence of get, set and clear calls on a SearchCache of
\* max_size M >= 1 the cache holds at most M entries, and a set on a full
\* cache removes an entry with the oldest timestamp before it inserts.
C32_Cache == []C32_AtMost /\ [][C32_Step]_vars

\* a full cache of two entries whose older entry has just been replaced
C32_Witness ==
    /\ stool.on
    /\ stool.max_size = 2
    /\ Len(stool.cache) = 2
    /\ stool.last.op = "set"
    /\ stool.cache[2].key = stool.last.key
    /\ stool.cache[1].timestamp = 2
    /\ stool.cache[2].timestamp = 3

\* -------------------------------------------------------------- RateLimiter
\* [req for req in self._requests if req > cutoff]
InWindow(requests, now, time_window) ==
    SelectSeq(requests, LAMBDA req : req > now - time_window)

\* a check_and_wait that records the request without waiting
check_and_wait_nowait(requests, now, max_requests, time_window, oversleep) ==
    [raised |-> FALSE, now |-> now,
     requests |-> Append(InWindow(requests, now, time_window), now)]

\* check_and_wait called at `now`: the requests it leaves, the time at which
\* it returns, and whether it raised (IndexError on self._requests[0] when
\* max_requests is 0). time.sleep(wait_time) sleeps wait_time seconds or
\* oversleep more.
RECURSIVE check_and_wait(_, _, _, _, _)
check_and_wait(requests, now, max_requests, time_window, oversleep) ==
    LET kept == InWindow(requests, now, time_window)
    IN  IF Len(kept) >= max_requests
        THEN IF kept = <<>>
             THEN [raised |-> TRUE, now |-> now, requests |-> kept]
             ELSE LET wait_time == kept[1] + time_window - now
                  IN  IF wait_time > 0
                      THEN check_and_wait(kept, now + wait_time + oversleep,
                                          max_requests, time_window, oversleep)
                      ELSE [raised |-> FALSE, now |-> now,
                            requests |-> Append(kept, now)]
        ELSE [raised |-> FALSE, now |-> now, requests |-> Append(kept, now)]

Windows == {1, 2}
Oversleeps == {0, 1}

LimiterInit ==
    /\ env = PairEnv
    /\ iv = <<>>
    /\ thr = [t \in Tids |-> NewThread]
    /\ memo = NoMemo
    /\ tids = {}
    /\ call = NoCall
    /\ app = NoApp
    /\ rt = NoRetry
    /\ cb = NoBreaker
    /\ \E R \in 0..MaxRequests, W \in Windows : stool = NewTool(1, R, W)

\* one call of check_and_wait, from its entry to its return
CheckAndWait ==
    /\ stool.on
    /\ Len(stool.admitted) < MaxCalls
    /\ \E oversleep \in Oversleeps :
          LET r == check_and_wait(stool.requests, stool.now, stool.max_requests,
                                  stool.time_window, oversleep)
          IN  stool' = [stool EXCEPT
                  !.requests = r.requests,
                  !.now = r.now,
                  !.admitted = IF r.raised THEN @ ELSE Append(@, r.now),
                  !.last = [op |-> "check_and_wait", raised |-> r.raised,
                            at |-> stool.now]]
    /\ ToolFrame

LimiterNext == CheckAndWait \/ ToolTick

LimiterSpec == LimiterInit /\ [][LimiterNext]_vars

\* the admitted requests with a timestamp in the span (t, t + time_window]
AdmittedIn(t) ==
    {i \in DOMAIN stool.admitted :
        t < stool.admitted[i] /\ stool.admitted[i] <= t + stool.time_window}

Times == 0..(MaxTime + (MaxCalls + 1) * 3)

C33_Window ==
    stool.on
    => \A t \in Times : Cardinality(AdmittedIn(t)) <= stool.max_requests

\* a call made when the window is full returns when the oldest request of
\* the window is time_window seconds old or older
C33_Step ==
    (/\ stool.on
     /\ stool'.last.op = "check_and_wait"
     /\ ~stool'.last.raised
     /\ Len(InWindow(stool.requests, stool.now, stool.time_window))
            >= stool.max_requests)
    => LET kept == InWindow(stool.requests, stool.now, stool.time_window)
       IN  /\ stool'.now >= kept[1] + stool.time_window
           /\ stool'.admitted = Append(stool.admitted, stool'.now)

\* C33: after any sequence of check_and_wait calls made one at a time on one
\* RateLimiter, at most max_requests admitted requests have timestamps in
\* any span (t, t + time_window] of time_window seconds, and a call made when
\* the window is full returns only after the oldest admitted request has
\* left the window.
C33_Limiter == []C33_Window /\ [][C33_Step]_vars

\* the third request of a limiter of two per two seconds, made at once, was
\* admitted two seconds after the first
C33_Witness ==
    /\ stool.on
    /\ stool.max_requests = 2
    /\ stool.time_window = 2
    /\ stool.admitted = <<1, 1, 3>>
    /\ stool.last.op = "check_and_wait"
    /\ stool.last.at = 1

\* ------------------------------------------ check_and_wait from branches
\* The interview branches of one fan-out run in the threads of the engine and
\* share the tools built once by build_interview_graph. A branch inside
\* check_and_wait holds its own `now`; the statements of the method are its
\* steps, and the steps of the branches interleave.
IdleProc == [pc |-> "idle", now |-> 0, wake |-> 0]

RaceInit ==
    /\ env = PairEnv
    /\ iv = <<>>
    /\ thr = [t \in Tids |-> NewThread]
    /\ memo = NoMemo
    /\ tids = {}
    /\ call = NoCall
    /\ app = NoApp
    /\ rt = NoRetry
    /\ cb = NoBreaker
    /\ \E R \in 1..MaxRequests, W \in Windows :
          stool = [NewTool(1, R, W) EXCEPT
                      !.procs = [b \in 1..MaxAnalysts |-> IdleProc]]

SetProc(b, proc) == [stool EXCEPT !.procs[b] = proc, !.last = NoOp]

\* now = datetime.now(); self._requests = [req ... if req > cutoff]
ProcEnter(b) ==
    /\ stool.procs[b].pc \in {"idle", "woken"}
    /\ Len(stool.admitted) < MaxCalls
    /\ stool' = [SetProc(b, [pc |-> "filtered", now |-> stool.now, wake |-> 0])
                    EXCEPT !.requests =
                        InWindow(stool.requests, stool.now, stool.time_window)]
    /\ ToolFrame

\* if len(self._requests) >= self.max_requests: ... wait_time
ProcCheck(b) ==
    LET me == stool.procs[b]
    IN  /\ me.pc = "filtered"
        /\ IF Len(stool.requests) >= stool.max_requests /\ stool.requests # <<>>
           THEN LET wait_time == stool.requests[1] + stool.time_window - me.now
                IN  IF wait_time > 0
                    THEN stool' = SetProc(b, [me EXCEPT !.pc = "sleeping",
                                                        !.wake = me.now + wait_time])
                    ELSE stool' = SetProc(b, [me EXCEPT !.pc = "recording"])
           ELSE stool' = SetProc(b, [me EXCEPT !.pc = "recording"])
        /\ ToolFrame

\* time.sleep(wait_time) is over: return self.check_and_wait()
ProcWake(b) ==
    /\ stool.procs[b].pc = "sleeping"
    /\ stool.now >= stool.procs[b].wake
    /\ stool' = SetProc(b, [stool.procs[b] EXCEPT !.pc = "woken"])
    /\ ToolFrame

\* self._requests.append(now)
ProcRecord(b) ==
    LET me == stool.procs[b]
    IN  /\ me.pc = "recording"
        /\ stool' = [SetProc(b, IdleProc) EXCEPT
                        !.requests = Append(@, me.now),
                        !.admitted = Append(@, me.now)]
        /\ ToolFrame

RaceNext ==
    \/ \E b \in 1..MaxAnalysts : ProcEnter(b)
    \/ \E b \in 1..MaxAnalysts : ProcCheck(b)
    \/ \E b \in 1..MaxAnalysts : ProcWake(b)
    \/ \E b \in 1..MaxAnalysts : ProcRecord(b)
    \/ ToolTick

RaceSpec == RaceInit /\ [][RaceNext]_vars

\* C34: when several concurrently running interview branches call
\* check_and_wait on the RateLimiter of the tool they share, the number of
\* requests admitted within any time_window never exceeds max_requests.
C34_AsStated ==
    stool.on
    => \A t \in Times : Cardinality(AdmittedIn(t)) <= stool.max_requests

\* ------------------------------------------- WebSearchTool / Wikipedia search
\* what the backend (Tavily, WikipediaLoader) gives: results, none, an error
BackendOutcomes == SearchResults \cup {"empty", "raise"}

CacheTtl == 1

\* a search body that goes to the backend whatever the cache holds
search_body_uncached(t, query, backend) ==
    LET q == Strip(query)
        lim == check_and_wait(t.requests, t.now, t.max_requests, t.time_window, 0)
        t2 == [t EXCEPT !.requests = lim.requests, !.now = lim.now,
                        !.admitted = IF lim.raised THEN @ ELSE Append(@, lim.now)]
        t3 == [t2 EXCEPT !.invoked = @ + 1]
    IN  IF q = <<>> THEN [out |-> "raise", t |-> t]
        ELSE IF lim.raised \/ backend = "raise" THEN [out |-> "raise", t |-> t3]
        ELSE [out |-> backend,
              t |-> [t3 EXCEPT !.cache =
                        cache_set(t3.cache, t3.max_size, q, t.kind, backend,
                                  CacheTtl, t3.now)]]

\* the body of search, one attempt: ValueError on an empty query, the cached
\* results on a hit, else the rate limiter, the backend and the cache; the
\* Wikipedia tool does not cache an empty list
search_body(t, query, backend) ==
    LET q == Strip(query)
        got == cache_get(t.cache, q, t.kind, t.now)
        t1 == [t EXCEPT !.cache = got.cache]
        lim == check_and_wait(t1.requests, t1.now, t1.max_requests,
                              t1.time_window, 0)
        t2 == [t1 EXCEPT !.requests = lim.requests, !.now = lim.now,
                         !.admitted = IF lim.raised THEN @ ELSE Append(@, lim.now)]
        t3 == [t2 EXCEPT !.invoked = @ + 1]
    IN  IF q = <<>> THEN [out |-> "raise", t |-> t]
        ELSE IF got.results # "None" THEN [out |-> got.results, t |-> t1]
        ELSE IF lim.raised THEN [out |-> "raise", t |-> t2]
        ELSE IF backend = "raise" THEN [out |-> "raise", t |-> t3]
        ELSE IF t.kind = "wikipedia" /\ backend = "empty"
        THEN [out |-> backend, t |-> t3]
        ELSE [out |-> backend,
              t |-> [t3 EXCEPT !.cache =
                        cache_set(t3.cache, t3.max_size, q, t.kind, backend,
                                  CacheTtl, t3.now)]]

\* search under @retry_with_backoff(max_retries=3, exceptions=(Exception,)):
\* the backend fails `fails` times and then gives `final`; after a failed
\* attempt the wrapper sleeps `delay` seconds and doubles the delay
RECURSIVE search(_, _, _, _, _, _)
search(t, query, fails, final, attempt, delay) ==
    LET r == search_body(t, query, IF attempt < fails THEN "raise" ELSE final)
    IN  IF r.out # "raise" \/ attempt = SearchMaxRetries THEN r
        ELSE search([r.t EXCEPT !.now = @ + delay], query, fails, final,
                    attempt + 1, delay * 2)

ToolQueries == Queries \cup { <<" ">> }

ToolInit ==
    /\ env = PairEnv
    /\ iv = <<>>
    /\ thr = [t \in Tids |-> NewThread]
    /\ memo = NoMemo
    /\ tids = {}
    /\ call = NoCall
    /\ app = NoApp
    /\ rt = NoRetry
    /\ cb = NoBreaker
    /\ \E k \in SearchTypes, R \in 1..MaxRequests :
          stool = [NewTool(MaxCacheSize, R, 2) EXCEPT !.kind = k]

ToolSearch ==
    /\ stool.on
    /\ stool.now <= MaxTime
    /\ Len(stool.admitted) < MaxCalls
    /\ \E query \in ToolQueries, fails \in 0..(SearchMaxRetries + 1),
          final \in BackendOutcomes \ {"raise"} :
          LET r == search(stool, query, fails, final, 0, 1)
          IN  stool' = [r.t EXCEPT
                  !.last = [op |-> "search", query |-> query, out |-> r.out]]
    /\ ToolFrame

ToolNext == ToolSearch \/ ToolTick

ToolSpec == ToolInit /\ [][ToolNext]_vars

\* the query as the cache sees it: trimmed, case-insensitive
Normalized(query) == Lower(Strip(query))

\* the entries the cache of the tool holds for the query
EntriesFor(t, query) ==
    {i \in DOMAIN t.cache : t.cache[i].key = <<t.kind, Normalized(query)>>}

Unexpired(t, i) == t.now - t.cache[i].timestamp <= t.cache[i].ttl_seconds

Searched == stool.on /\ stool'.last.op = "search"

C35_Step ==
    Searched
    => \A i \in EntriesFor(stool, stool'.last.query) :
          IF Unexpired(stool, i)
          THEN /\ stool'.last.out = stool.cache[i].results
               /\ stool'.requests = stool.requests
               /\ stool'.admitted = stool.admitted
               /\ stool'.invoked = stool.invoked
               /\ stool'.now = stool.now
          ELSE /\ stool'.last.out = "raise" \/ stool'.invoked > stool.invoked
               /\ stool.cache[i] \notin {stool'.cache[j] : j \in DOMAIN stool'.cache}

\* C35: a WebSearchTool.search or WikipediaSearchTool.search call whose
\* normalized query (trimmed, case-insensitive) has an unexpired cache entry
\* returns the cached results, records no request in the rate limiter and
\* does not invoke the backend; an expired entry is never returned: the call
\* goes to the backend (or raises) and the entry is removed.
C35_CacheHit == [][C35_Step]_vars

\* a search for " A" answered from the entry another spelling has cached,
\* with one request recorded and one invocation of the backend so far
C35_Witness ==
    /\ stool.on
    /\ stool.last.op = "search"
    /\ stool.last.query = <<" ", "A">>
    /\ stool.last.out = "r1"
    /\ stool.invoked = 1
    /\ stool.admitted = <<1>>
    /\ stool.now = 2
    /\ Len(stool.cache) = 1

\* ------------------------------------------------- the feedback and the loop
Feedback(t) == StateGet(thr[t].values, "human_analyst_feedback", <<>>)

\* a run in progress on a graph compiled without interrupts
Ungated(t) == Running(t) /\ ~Gated(t)

Refused(t) == Ungated(t) /\ Normalised(thr[t].values) # Approve

Approved(t) == Ungated(t) /\ Normalised(thr[t].values) = Approve

\* no node writes the feedback: it changes only when invoke() raises and the
\* values fall back to what was saved
C36_Frame ==
    \A t \in Tids :
        (Running(t) /\ thr'[t].status \in {"running", "paused", "done"})
        => "human_analyst_feedback" \in DOMAIN thr'[t].values
           /\ thr'[t].values.human_analyst_feedback = Feedback(t)

\* a refused run is at create_analysts or at the gate, nowhere else
C36_Loop ==
    \A t \in Tids :
        Refused(t)
        => /\ thr[t].next \in {{"create_analysts"}, {"human_feedback"}}
           /\ thr[t].values.sections = <<>>
           /\ thr[t].values.final_report = <<>>
           /\ iv = <<>>

validate_analyst_feedback(feedback) ==
    IF feedback = <<>> THEN TRUE
    ELSE Strip(Lower(feedback)) = Approve

\* a run standing at the gate with analysts to interview
AtGate(t) ==
    /\ Running(t)
    /\ GatePending(t)
    /\ StateGet(thr[t].values, "analysts", <<>>) # <<>>

\* C37: validate_analyst_feedback and the gate router agree on approval: at
\* the gate, for every feedback string, the empty one included,
\* validate_analyst_feedback returns True exactly when initiate_all_interviews
\* returns the Send list that spawns the interview branches.
C37_AsStated ==
    \A t \in Tids :
        AtGate(t)
        => (validate_analyst_feedback(Feedback(t))
            <=> initiate_all_interviews(thr[t].values).kind = "sends")

\* ------------------------------------------- the analysts the gate router sees
\* analysts an initial state may carry: none, one, more than any max_analysts
SeedAnalysts == {<<>>, <<9>>, [i \in 1..(MaxAnalysts + 1) |-> 9]}

\* graph.invoke(initial_state) with an initial state whose analysts the caller
\* has set
InvokeSeeded ==
    /\ 1 \in tids
    /\ Idle
    /\ thr[1].status = "new"
    /\ \E enable_interrupts \in BOOLEAN, checkpointer \in BOOLEAN,
          max_analysts \in 1..MaxAnalysts, feedback \in Feedbacks,
          analysts \in SeedAnalysts, max_interview_turns \in {DefaultMaxTurns} :
          LET graph == build_research_graph(enable_interrupts, checkpointer)
              input == [initial_state(max_analysts, feedback)
                            EXCEPT !.analysts = analysts]
          IN  SetThr(1, Commit([NewThread EXCEPT !.graph = graph, !.input = input,
                                    !.max_interview_turns = max_interview_turns,
                                    !.status = "running"],
                               input, {"create_analysts"}, <<>>))
    /\ iv' = <<>>
    /\ UNCHANGED <<env, memo, tids>>

SeededNext ==
    \/ InvokeSeeded /\ UNCHANGED uvars
    \/ RunNode(1) /\ UNCHANGED uvars
    \/ ContinueResearch(1) /\ UNCHANGED uvars

SeededSpec == Init /\ [][SeededNext]_vars

RECURSIVE BranchSections(_)
BranchSections(branches) ==
    IF branches = <<>> THEN <<>>
    ELSE StateGet(Head(branches).st, "sections", <<>>) \o BranchSections(Tail(branches))

\* the fan-out starts: one branch per analyst, holding that analyst and the
\* opening message and nothing else
C39_Start ==
    (iv = <<>> /\ iv' # <<>>)
    => \E t \in Tids :
          /\ thr'[t].status = "running"
          /\ thr'[t].next = {"conduct_interview"}
          /\ Len(iv') = Len(thr'[t].values.analysts)
          /\ \A i \in DOMAIN iv' :
                /\ thr'[t].sends[i].arg =
                      [analyst |-> thr'[t].values.analysts[i],
                       messages |-> <<HumanMessage(OpeningText(thr'[t].values.topic))>>]
                /\ iv'[i].st =
                      [analyst |-> thr'[t].values.analysts[i],
                       messages |-> <<HumanMessage(OpeningText(thr'[t].values.topic))>>,
                       context |-> <<>>]

\* a node of one branch runs: the other branches and the parent's values stay
\* as they are
C39_Branch ==
    (iv # <<>> /\ iv' # <<>> /\ iv' # iv)
    => /\ Len(iv') = Len(iv)
       /\ \E i \in DOMAIN iv : \A j \in DOMAIN iv \ {i} : iv'[j] = iv[j]
       /\ \A t \in Tids : thr'[t].values = thr[t].values

\* the branches are joined: the parent gains their sections and nothing else
C39_Join ==
    \A t \in Tids :
        (iv # <<>> /\ iv' = <<>> /\ Running(t) /\ thr'[t].status = "running")
        => /\ DOMAIN thr'[t].values = DOMAIN thr[t].values
           /\ \A k \in DOMAIN thr[t].values \ {"sections"} :
                 thr'[t].values[k] = thr[t].values[k]
           /\ thr'[t].values.sections = thr[t].values.sections \o BranchSections(iv)

\* C39: interview branches are isolated: each branch starts from a state
\* holding only its own analyst and one opening message, a step of one branch
\* leaves the messages, context and transcript of every other branch as they
\* were, and the only field the branches contribute to the parent state is
\* sections.
C39_Isolated == [][C39_Start /\ C39_Branch /\ C39_Join]_vars

\* two branches in flight: the first has saved its transcript, the second
\* still holds its opening message alone
C39_Witness ==
    /\ Running(1)
    /\ Len(iv) = 2
    /\ "interview" \in DOMAIN iv[1].st
    /\ Len(iv[1].st.messages) > 1
    /\ Len(iv[2].st.messages) = 1
    /\ iv[2].st.context = <<>>
    /\ thr[1].values.sections = <<>>

====
